---- MODULE Spec2Model ----
(***************************************************************************)
(* PureBlog (www/orm.py, www/web_frame.py): the data access runtime        *)
(* (select / execute on a pooled connection), the entity mapper            *)
(* (ModelMetaclass, Model) and the request dispatcher (RequestHandler).    *)
(*                                                                         *)
(* The three parts share no state, so each has its own specification:      *)
(*   SpecPool      select / execute calls, one step per suspension point   *)
(*   SpecSchema    ModelMetaclass.__new__ over bounded class declarations  *)
(*   SpecOrm       Model instances: construction, attribute assignment,    *)
(*                 getValueOrDefault, save, update, remove, find           *)
(*   SpecDispatch  RequestHandler.__call__ over bounded handlers/requests  *)
(***************************************************************************)
EXTENDS Integers, Sequences, FiniteSets, TLC

(* ------------------------------------------------------------------ *)
(* Bounds                                                              *)
(* ------------------------------------------------------------------ *)
\* concurrent callers of select / execute
NProcs == 2
\* connections the pool hands out at once (maxsize)
MaxSize == 1
\* Field attributes in a class body
MaxFields == 3
\* operations applied to one entity instance
MaxOps == 3
\* rows a table holds
MaxRows == 3
\* the largest offset and the largest count a query asks for
MaxLimit == 2

Procs == 1..NProcs
Conns == 1..MaxSize

VARIABLES
  \* ---- data access runtime (orm.py select / execute) ----
  pc,        \* per caller: position in select / execute
  call,      \* per caller: [fn, autocommit] of the call in flight
  conn,      \* per caller: the checked-out connection, NoConn when none
  free,      \* connections idle in the pool
  ev,        \* per caller: driver calls issued on its connection, in order
  caught,    \* per caller: the exception bound to e in execute's except
  result,    \* per caller: how the call ended
  \* ---- entity mapper (orm.py ModelMetaclass) ----
  attrs,     \* the Field attributes of the class body, in declaration order
  cls,       \* the class ModelMetaclass.__new__ produced, NoClass when none
  derived,   \* "pending", "ok", or the RuntimeError raised
  \* ---- entity instances and the table behind them (orm.py Model) ----
  phase,     \* "new" before the instance is constructed, then "live"
  obj,       \* the instance: [d, gen, res, calls, first]
  table,     \* the table's rows, by primary-key value
  track,     \* what the caller did to the instance so far
  last,      \* the operation that ran last and how it ended
  rt,        \* a save() and the find() that followed it
  nOps,      \* operations run on the instance
  \* ---- request dispatch (web_frame.py RequestHandler) ----
  func,      \* the parameters of the handler function
  handler,   \* the RequestHandler built for it at registration
  request,   \* the request being dispatched
  stage,     \* "received", "called" (the handler runs) or "done"
  kw,        \* the keyword mapping after reconciliation
  response,  \* what __call__ returned or raised
  invoked,   \* how often the handler function was called
  exc,       \* the exception the handler function raised
  returned,  \* the value __call__ returned to response_factory
  wire,      \* what response_factory's response(request) gave back
  sent,      \* what the server sent to the client
  \* ---- queries (orm.py findAll / findNumber / find) ----
  query,     \* the class method called and its arguments
  answer,    \* how the call ended, the statement it ran, what it returned
  caller,    \* the args list the caller of findAll passed, and its calls so far
  \* ---- pool shutdown (test_orm.py) ----
  pool,      \* the pool's state, the program that made it, whether its loop runs
  \* ---- concurrent tasks (save, api_register_user) ----
  task,      \* per task: the coroutine's position and locals
  \* ---- blog management handlers (handlers.py) ----
  api        \* the request, the handler's position, the persistence calls it made

poolVars == <<pc, call, conn, free, ev, caught, result>>
schemaVars == <<attrs, cls, derived>>
ormVars == <<phase, obj, table, track, last, rt, nOps>>
dispatchVars == <<func, handler, request, stage, kw, response, invoked,
    exc, returned, wire, sent>>
queryVars == <<query, answer, caller>>
\* what select / execute leave alone
nonPoolVars ==
  <<schemaVars, ormVars, dispatchVars, queryVars, pool, task, api>>
\* what the metaclass leaves alone
nonSchemaVars ==
  <<poolVars, ormVars, dispatchVars, queryVars, pool, task, api>>
\* what the operations on an instance leave alone
nonOrmVars ==
  <<poolVars, schemaVars, dispatchVars, queryVars, pool, task, api>>
\* what the dispatcher leaves alone
nonDispatchVars ==
  <<poolVars, schemaVars, ormVars, queryVars, pool, task, api>>
\* what the queries leave alone
nonQueryVars ==
  <<poolVars, schemaVars, ormVars, dispatchVars, pool, task, api>>
\* what a task leaves alone besides the connections and the table
nonTaskVars ==
  <<pc, call, ev, caught, result, schemaVars, phase, obj, track, last, rt,
    nOps, dispatchVars, queryVars, pool, api>>

vars ==
  <<pc, call, conn, free, ev, caught, result, attrs, cls, derived,
    phase, obj, table, track, last, rt, nOps,
    func, handler, request, stage, kw, response, invoked,
    exc, returned, wire, sent, query, answer, caller, pool, task, api>>

(* ------------------------------------------------------------------ *)
(* Data access runtime: select and execute                             *)
(* ------------------------------------------------------------------ *)
NoConn == 0

Range(s) == {s[i] : i \in DOMAIN s}

NoErr == [at |-> "none", what |-> "none"]
\* what: "error" is an exception raised by the driver call, "cancel" the
\* CancelledError thrown into the coroutine at that suspension point
Err(at, what) == [at |-> at, what |-> what]

NoCall == [fn |-> "none", autocommit |-> TRUE]
NoResult == [how |-> "none", err |-> NoErr]

\* the driver calls of each function, in program order
DriverOps(fn) ==
  IF fn = "select" THEN {"cursor", "exec", "fetch", "close"}
  ELSE {"begin", "cursor", "exec", "close", "commit", "rollback"}

\* position after the call at `at` has returned normally
AfterOk(c, at) ==
  IF c.fn = "select"
  THEN CASE at = "acquire" -> "cursor"
         [] at = "cursor"  -> "exec"
         [] at = "exec"    -> "fetch"
         [] at = "fetch"   -> "close"
         [] OTHER          -> "return"
  ELSE CASE at = "acquire" -> IF c.autocommit THEN "cursor" ELSE "begin"
         [] at = "begin"   -> "cursor"
         [] at = "cursor"  -> "exec"
         [] at = "exec"    -> "close"
         [] at = "close"   -> IF c.autocommit THEN "return" ELSE "commit"
         [] OTHER          -> "return"

\* the statements execute() guards with try / except BaseException
InTry(c, at) == c.fn = "execute" /\ at \in {"cursor", "exec", "close", "commit"}

\* the with statement gives the connection back however its body is left
ExitReleasesOnReturnOnly(how) == how = "returned"
ExitReleases(how) == TRUE

\* leaving the with block: the call ends with `how` and `err`
Leave(p, how, err) ==
  /\ pc' = [pc EXCEPT ![p] = "done"]
  /\ result' = [result EXCEPT ![p] = [how |-> how, err |-> err]]
  /\ IF ExitReleases(how) /\ conn[p] # NoConn
     THEN /\ free' = free \cup {conn[p]}
          /\ conn' = [conn EXCEPT ![p] = NoConn]
     ELSE UNCHANGED <<free, conn>>

\* a caller enters select(sql, args) or execute(sql, args, autocommit)
Call(p) ==
  /\ pc[p] = "idle"
  /\ \E fn \in {"select", "execute"}, ac \in BOOLEAN :
       /\ fn = "select" => ac
       /\ call' = [call EXCEPT ![p] = [fn |-> fn, autocommit |-> ac]]
  /\ pc' = [pc EXCEPT ![p] = "acquire"]
  /\ UNCHANGED <<conn, free, ev, caught, result>>
  /\ UNCHANGED nonPoolVars

\* yield from __pool: a free connection is checked out
Acquire(p) ==
  /\ pc[p] = "acquire"
  /\ \E c \in free :
       /\ free' = free \ {c}
       /\ conn' = [conn EXCEPT ![p] = c]
  /\ pc' = [pc EXCEPT ![p] = AfterOk(call[p], "acquire")]
  /\ UNCHANGED <<call, ev, caught, result>>
  /\ UNCHANGED nonPoolVars

\* yield from __pool raises or the task is cancelled while it waits
AcquireFail(p) ==
  /\ pc[p] = "acquire"
  /\ \E what \in {"error", "cancel"} : Leave(p, "raised", Err("acquire", what))
  /\ UNCHANGED <<call, ev, caught>>
  /\ UNCHANGED nonPoolVars

\* the driver call at pc[p] returns normally
OpOk(p) ==
  /\ pc[p] \in DriverOps(call[p].fn) \ {"rollback"}
  /\ ev' = [ev EXCEPT ![p] = Append(@, pc[p])]
  /\ IF AfterOk(call[p], pc[p]) = "return"
     THEN Leave(p, "returned", NoErr)
     ELSE /\ pc' = [pc EXCEPT ![p] = AfterOk(call[p], pc[p])]
          /\ UNCHANGED <<conn, free, result>>
  /\ UNCHANGED <<call, caught>>
  /\ UNCHANGED nonPoolVars

\* the driver call at pc[p] raises, or the task is cancelled in it
OpFail(p) ==
  /\ pc[p] \in DriverOps(call[p].fn) \ {"rollback"}
  /\ ev' = [ev EXCEPT ![p] = Append(@, pc[p])]
  /\ \E what \in {"error", "cancel"} :
       LET e == Err(pc[p], what) IN
       IF InTry(call[p], pc[p])
       THEN \* except BaseException as e
            /\ caught' = [caught EXCEPT ![p] = e]
            /\ IF ~call[p].autocommit
               THEN /\ pc' = [pc EXCEPT ![p] = "rollback"]
                    /\ UNCHANGED <<conn, free, result>>
               ELSE Leave(p, "raised", e)
       ELSE /\ Leave(p, "raised", e)
            /\ UNCHANGED caught
  /\ UNCHANGED call
  /\ UNCHANGED nonPoolVars

\* yield from conn.rollback() returns: raise e
RollbackOk(p) ==
  /\ pc[p] = "rollback"
  /\ ev' = [ev EXCEPT ![p] = Append(@, "rollback")]
  /\ Leave(p, "raised", caught[p])
  /\ UNCHANGED <<call, caught>>
  /\ UNCHANGED nonPoolVars

\* yield from conn.rollback() itself raises or is cancelled: that
\* exception leaves the except block, raise e is never reached
RollbackFail(p) ==
  /\ pc[p] = "rollback"
  /\ ev' = [ev EXCEPT ![p] = Append(@, "rollback")]
  /\ \E what \in {"error", "cancel"} : Leave(p, "raised", Err("rollback", what))
  /\ UNCHANGED <<call, caught>>
  /\ UNCHANGED nonPoolVars

\* the caller goes on to its next call
Finish(p) ==
  /\ pc[p] = "done"
  /\ pc' = [pc EXCEPT ![p] = "idle"]
  /\ call' = [call EXCEPT ![p] = NoCall]
  /\ ev' = [ev EXCEPT ![p] = <<>>]
  /\ caught' = [caught EXCEPT ![p] = NoErr]
  /\ result' = [result EXCEPT ![p] = NoResult]
  /\ UNCHANGED <<conn, free>>
  /\ UNCHANGED nonPoolVars


(* ------------------------------------------------------------------ *)
(* Entity mapper: Field, ModelMetaclass.__new__, create_args_string    *)
(* ------------------------------------------------------------------ *)
\* Field.name left at None
NoName == ""
\* attribute names a class body may use, by position
AttrNames == <<"id", "a", "b", "c", "d">>
\* the explicit column name a field may carry instead of its attribute name
ColFor(attr) == "col_" \o attr

\* Field(name, column_type, primary_key, default) bound to attribute attr;
\* default is "none" (None), "static" (a value) or "gen" (a callable)
Field(attr, name, primary_key, default) ==
  [attr |-> attr, name |-> name, primary_key |-> primary_key, default |-> default]

\* SQL text as a sequence of tokens: keywords / punctuation and `identifiers`
Kw(w) == [k |-> "kw", v |-> w]
Id(n) == [k |-> "id", v |-> n]

\* sep.join(items), each item a token sequence
RECURSIVE Join(_, _)
Join(items, sep) ==
  IF items = <<>> THEN <<>>
  ELSE IF Len(items) = 1 THEN Head(items)
       ELSE Head(items) \o <<sep>> \o Join(Tail(items), sep)

\* create_args_string(num): num placeholders joined by ', '
RECURSIVE QuestionMarks(_)
QuestionMarks(num) ==
  IF num <= 0 THEN <<>> ELSE <<(<<Kw("?")>>)>> \o QuestionMarks(num - 1)
create_args_string(num) == Join(QuestionMarks(num), Kw(","))

\* `if primaryKey:` inside the loop, `if not primaryKey:` after it
NeverTaken(primaryKey) == FALSE
PrimaryKeyTaken(primaryKey) == primaryKey # ""

NoScan == [primaryKey |-> "", fields |-> <<>>, err |-> ""]

\* the loop over attrs.items(): collects the primary key and the other
\* fields, and raises at the second primary key it meets
RECURSIVE ScanAttrs(_, _)
ScanAttrs(items, st) ==
  IF items = <<>> \/ st.err # "" THEN st
  ELSE LET v == Head(items) IN
       ScanAttrs(Tail(items),
         IF v.primary_key
         THEN IF PrimaryKeyTaken(st.primaryKey)
              THEN [st EXCEPT !.err = "Duplicate primary key"]
              ELSE [st EXCEPT !.primaryKey = v.attr]
         ELSE [st EXCEPT !.fields = Append(@, v.attr)])

\* mappings.get(f)
Mapping(items, f) == CHOOSE v \in {items[i] : i \in DOMAIN items} : v.attr = f

\* escaped_fields: `f` for every non-key attribute name
EscapedFields(fields) == [i \in DOMAIN fields |-> <<Id(fields[i])>>]

\* the SET list of __update__: `name or f`=? per non-key field
UpdateSetItems(items, fields) ==
  [i \in DOMAIN fields |->
     LET m == Mapping(items, fields[i]) IN
     <<Id(IF m.name # NoName THEN m.name ELSE fields[i]), Kw("="), Kw("?")>>]

SelectTemplate(tableName, primaryKey, fields) ==
  <<Kw("select"), Id(primaryKey), Kw(",")>>
    \o Join(EscapedFields(fields), Kw(","))
    \o <<Kw("from"), Id(tableName)>>

UpdateTemplate(tableName, primaryKey, fields, items) ==
  <<Kw("update"), Id(tableName), Kw("set")>>
    \o Join(UpdateSetItems(items, fields), Kw(","))
    \o <<Kw("where"), Id(primaryKey), Kw("="), Kw("?")>>

DeleteTemplate(tableName, primaryKey) ==
  <<Kw("delete from"), Id(tableName), Kw("where"), Id(primaryKey), Kw("="), Kw("?")>>

InsertTemplate(tableName, primaryKey, fields) ==
  <<Kw("insert into"), Id(tableName), Kw("(")>>
    \o Join(EscapedFields(fields), Kw(","))
    \o <<Kw(","), Id(primaryKey), Kw(")"), Kw("values"), Kw("(")>>
    \o create_args_string(Len(EscapedFields(fields)) + 1)
    \o <<Kw(")")>>

\* no class object: what is left when __new__ raises
NoClass ==
  [mappings |-> <<>>, table |-> "", primary_key |-> "", fields |-> <<>>,
   select |-> <<>>, insert |-> <<>>, update |-> <<>>, delete |-> <<>>]

TableName == "T"

\* ModelMetaclass.__new__(cls, name, bases, attrs) for a class other than
\* Model: [err, class]
MetaNew(tableName, items) ==
  LET st == ScanAttrs(items, NoScan) IN
  IF st.err # "" THEN [err |-> st.err, class |-> NoClass]
  ELSE IF ~PrimaryKeyTaken(st.primaryKey)
  THEN [err |-> "Priamry key not found.", class |-> NoClass]
  ELSE [err |-> "",
        class |->
          [mappings |-> items, table |-> tableName,
           primary_key |-> st.primaryKey, fields |-> st.fields,
           select |-> SelectTemplate(tableName, st.primaryKey, st.fields),
           insert |-> InsertTemplate(tableName, st.primaryKey, st.fields),
           update |-> UpdateTemplate(tableName, st.primaryKey, st.fields, items),
           delete |-> DeleteTemplate(tableName, st.primaryKey)]]

\* class bodies of n Field attributes: any of them may be a primary key and
\* may carry an explicit column name
ClassBodies(n) ==
  {b \in [1..n -> [primary_key : BOOLEAN, named : BOOLEAN]] : TRUE}

BodyItems(b) ==
  [i \in DOMAIN b |->
     Field(AttrNames[i], IF b[i].named THEN ColFor(AttrNames[i]) ELSE NoName,
           b[i].primary_key, "none")]

(* ------------------------------------------------------------------ *)
(* SQL statements as the database reads them                           *)
(* ------------------------------------------------------------------ *)
\* the first position of token t in s at or after position i, 0 when none
RECURSIVE IndexFrom(_, _, _)
IndexFrom(s, t, i) ==
  IF i > Len(s) THEN 0
  ELSE IF s[i] = t THEN i ELSE IndexFrom(s, t, i + 1)

\* the tokens of s after its first token a and before the next token b
Between(s, a, b) ==
  LET i == IndexFrom(s, a, 1)
      j == IF i = 0 THEN 0 ELSE IndexFrom(s, b, i + 1)
  IN IF i = 0 \/ j = 0 THEN <<>> ELSE SubSeq(s, i + 1, j - 1)

\* s split at every separator token: the elements of a comma-separated list
\* (an empty s is one empty element)
RECURSIVE SplitOn(_, _)
SplitOn(s, sep) ==
  LET i == IndexFrom(s, sep, 1) IN
  IF i = 0 THEN <<s>>
  ELSE <<SubSeq(s, 1, i - 1)>> \o SplitOn(SubSeq(s, i + 1, Len(s)), sep)

Elements(list) == SplitOn(list, Kw(","))

IsColumn(e) == Len(e) = 1 /\ e[1].k = "id"
IsMark(e) == e = <<Kw("?")>>
IsAssignment(e) == Len(e) = 3 /\ e[1].k = "id" /\ e[2] = Kw("=") /\ e[3] = Kw("?")

\* a comma-separated list with at least one element and no empty element,
\* each element of the given shape
ColumnList(list) == \A i \in DOMAIN Elements(list) : IsColumn(Elements(list)[i])
MarkList(list) == \A i \in DOMAIN Elements(list) : IsMark(Elements(list)[i])
AssignmentList(list) ==
  \A i \in DOMAIN Elements(list) : IsAssignment(Elements(list)[i])

\* the lists of a statement
SelectColumns(stmt) == Between(stmt, Kw("select"), Kw("from"))
InsertColumns(stmt) == Between(stmt, Kw("("), Kw(")"))
InsertMarks(stmt) ==
  LET v == IndexFrom(stmt, Kw("values"), 1) IN
  IF v = 0 THEN <<>> ELSE Between(SubSeq(stmt, v, Len(stmt)), Kw("("), Kw(")"))
UpdateSet(stmt) == Between(stmt, Kw("set"), Kw("where"))

\* the statement ends with where `pk`=? and has no other where
EndsWithKeyEquality(stmt, pk) ==
  LET w == IndexFrom(stmt, Kw("where"), 1) IN
  /\ w # 0
  /\ SubSeq(stmt, w, Len(stmt)) = <<Kw("where"), Id(pk), Kw("="), Kw("?")>>

\* the identifiers a list names, in order
RECURSIVE Identifiers(_)
Identifiers(list) ==
  IF list = <<>> THEN <<>>
  ELSE IF Head(list).k = "id" THEN <<Head(list).v>> \o Identifiers(Tail(list))
       ELSE Identifiers(Tail(list))

\* the number of ? placeholders of a statement
RECURSIVE Placeholders(_)
Placeholders(stmt) ==
  IF stmt = <<>> THEN 0
  ELSE (IF Head(stmt) = Kw("?") THEN 1 ELSE 0) + Placeholders(Tail(stmt))

\* the absent marker: Python's None, SQL's NULL
None == "None"

\* the column a field is stored in: Field.name, the attribute name when None
ColumnName(m) == IF m.name # NoName THEN m.name ELSE m.attr

\* the columns of the table of class c, and its key column
Columns(c) == {ColumnName(c.mappings[i]) : i \in DOMAIN c.mappings}
KeyColumn(c) == ColumnName(Mapping(c.mappings, c.primary_key))

\* the trailing  where `col`=?  of a statement: the column, "" when malformed
WhereColumn(stmt) ==
  LET w == IndexFrom(stmt, Kw("where"), 1) IN
  IF /\ w # 0
     /\ Len(stmt) = w + 3
     /\ stmt[w + 1].k = "id"
     /\ stmt[w + 2] = Kw("=")
     /\ stmt[w + 3] = Kw("?")
  THEN stmt[w + 1].v ELSE ""

\* the rows  where col = v  selects (NULL equals nothing)
Matching(tbl, col, v) ==
  IF v = None THEN {} ELSE {k \in DOMAIN tbl : tbl[k][col] = v}

\* the first position of name n in the sequence names, 0 when none
RECURSIVE Position(_, _, _)
Position(names, n, i) ==
  IF i > Len(names) THEN 0
  ELSE IF names[i] = n THEN i ELSE Position(names, n, i + 1)

\* the statement is refused (syntax error, unknown column, duplicate or
\* NULL key): the driver raises
Refused(tbl) == [err |-> TRUE, rows |-> 0, table |-> tbl, rs |-> <<>>]
Done(tbl, rows, rs) == [err |-> FALSE, rows |-> rows, table |-> tbl, rs |-> rs]

RunInsert(stmt, args, tbl, c) ==
  LET cols  == InsertColumns(stmt)
      marks == InsertMarks(stmt)
      names == Identifiers(cols)
  IN IF ~ /\ stmt[2] = Id(c.table)
          /\ ColumnList(cols) /\ MarkList(marks)
          /\ Len(Elements(cols)) = Len(Elements(marks))
          /\ Len(args) = Len(Elements(marks))
          /\ \A i \in DOMAIN names : names[i] \in Columns(c)
     THEN Refused(tbl)
     ELSE LET row == [col \in Columns(c) |->
                        IF Position(names, col, 1) = 0 THEN None
                        ELSE args[Position(names, col, 1)]]
              key == row[KeyColumn(c)]
          IN IF key = None \/ key \in DOMAIN tbl THEN Refused(tbl)
             ELSE Done([k \in DOMAIN tbl \cup {key} |->
                          IF k = key THEN row ELSE tbl[k]], 1, <<>>)

RunUpdate(stmt, args, tbl, c) ==
  LET set   == UpdateSet(stmt)
      names == Identifiers(set)
      col   == WhereColumn(stmt)
  IN IF ~ /\ stmt[2] = Id(c.table)
          /\ AssignmentList(set)
          /\ col \in Columns(c)
          /\ Len(args) = Len(Elements(set)) + 1
          /\ \A i \in DOMAIN names : names[i] \in Columns(c)
     THEN Refused(tbl)
     ELSE LET hit == Matching(tbl, col, args[Len(args)]) IN
          Done([k \in DOMAIN tbl |->
                  IF k \in hit
                  THEN [cc \in Columns(c) |->
                          IF Position(names, cc, 1) = 0 THEN tbl[k][cc]
                          ELSE args[Position(names, cc, 1)]]
                  ELSE tbl[k]],
               Cardinality(hit), <<>>)

RunDelete(stmt, args, tbl, c) ==
  LET col == WhereColumn(stmt) IN
  IF ~ /\ stmt[2] = Id(c.table)
       /\ col \in Columns(c)
       /\ Len(args) = 1
  THEN Refused(tbl)
  ELSE LET hit == Matching(tbl, col, args[1]) IN
       Done([k \in DOMAIN tbl \ hit |-> tbl[k]], Cardinality(hit), <<>>)

\* select <columns> from `T` where `col`=? : the rows as column -> value
RunSelect(stmt, args, tbl, c) ==
  LET cols  == SelectColumns(stmt)
      names == Identifiers(cols)
      col   == WhereColumn(stmt)
      f     == IndexFrom(stmt, Kw("from"), 1)
  IN IF ~ /\ ColumnList(cols)
          /\ f # 0 /\ f < Len(stmt) /\ stmt[f + 1] = Id(c.table)
          /\ col \in Columns(c)
          /\ Len(args) = 1
          /\ \A i \in DOMAIN names : names[i] \in Columns(c)
     THEN Refused(tbl)
     ELSE LET hit == Matching(tbl, col, args[1]) IN
          Done(tbl, 0,
               IF hit = {} THEN <<>>
               ELSE LET k == CHOOSE x \in hit : TRUE IN
                    <<[n \in {names[i] : i \in DOMAIN names} |-> tbl[k][n]]>>)

\* the statement run against the table
Run(stmt, args, tbl, c) ==
  IF stmt = <<>> THEN Refused(tbl)
  ELSE CASE Head(stmt) = Kw("insert into") -> RunInsert(stmt, args, tbl, c)
         [] Head(stmt) = Kw("update")      -> RunUpdate(stmt, args, tbl, c)
         [] Head(stmt) = Kw("delete from") -> RunDelete(stmt, args, tbl, c)
         [] Head(stmt) = Kw("select")      -> RunSelect(stmt, args, tbl, c)
         [] OTHER                          -> Refused(tbl)

(* ------------------------------------------------------------------ *)
(* Entity instances: Model                                             *)
(* ------------------------------------------------------------------ *)
Attrs(c) == {c.mappings[i].attr : i \in DOMAIN c.mappings}

\* a static default, and the n-th value a default generator returns
\* (next_id, time.time: a new value at every invocation)
StaticDefault == "dflt"
GenValue(n) == "g" \o ToString(n)

\* an instance: the dict d, the generator invocations so far (gen), and per
\* attribute how often its default was resolved (res), how often its
\* generator was invoked (calls) and the value resolved first (first)
Instance(c, d) ==
  [d |-> d, gen |-> 0,
   res |-> [a \in Attrs(c) |-> 0],
   calls |-> [a \in Attrs(c) |-> 0],
   first |-> [a \in Attrs(c) |-> None]]

NoInstance ==
  [d |-> <<>>, gen |-> 0, res |-> <<>>, calls |-> <<>>, first |-> <<>>]

\* self[key] = value
SetItem(d, key, value) ==
  [k \in DOMAIN d \cup {key} |-> IF k = key THEN value ELSE d[k]]

\* getValue: getattr(self, key, None)
getValue(o, key) == IF key \in DOMAIN o.d THEN o.d[key] ELSE None

\* the setattr(self, key, value) that ends getValueOrDefault's default branch
NotCached(d, key, value) == d
CacheDefault(d, key, value) == SetItem(d, key, value)

\* getValueOrDefault(key): [o, value], the instance after the call and the
\* value returned
getValueOrDefault(o, c, key) ==
  LET value == getValue(o, key)
      field == Mapping(c.mappings, key)
  IN IF value # None \/ field.default = "none"
     THEN [o |-> o, value |-> value]
     ELSE LET callable == field.default = "gen"
              v == IF callable THEN GenValue(o.gen + 1) ELSE StaticDefault
          IN [o |-> [d |-> CacheDefault(o.d, key, v),
                     gen |-> IF callable THEN o.gen + 1 ELSE o.gen,
                     res |-> [o.res EXCEPT ![key] = @ + 1],
                     calls |-> [o.calls EXCEPT ![key] = IF callable THEN @ + 1 ELSE @],
                     first |-> IF o.res[key] = 0
                               THEN [o.first EXCEPT ![key] = v] ELSE o.first],
              value |-> v]

\* list(map(self.getValueOrDefault, keys)), left to right: [o, args]
RECURSIVE MapDefault(_, _, _)
MapDefault(o, c, keys) ==
  IF keys = <<>> THEN [o |-> o, args |-> <<>>]
  ELSE LET h == getValueOrDefault(o, c, Head(keys))
           t == MapDefault(h.o, c, Tail(keys))
       IN [o |-> t.o, args |-> <<h.value>> \o t.args]

\* save: the fields through getValueOrDefault, then the primary key
SaveArgs(o, c) == MapDefault(o, c, Append(c.fields, c.primary_key))

\* update: the fields through getValue, then the primary key
UpdateArgs(o, c) ==
  [i \in 1..(Len(c.fields) + 1) |-> getValue(o, Append(c.fields, c.primary_key)[i])]

\* remove: the primary key
RemoveArgs(o, c) == <<getValue(o, c.primary_key)>>

\* find: __select__ where `pk`=?
FindStatement(c) ==
  c.select \o <<Kw("where"), Id(c.primary_key), Kw("="), Kw("?")>>

\* cls(**rs[0])
Entity(row) == row

\* save / update / remove after execute returned rows: a count other than 1
\* is logged with logging.warn, and the method returns None either way
RaiseOnCount(rows) ==
  [how |-> IF rows = 1 THEN "returned" ELSE "raised", warned |-> FALSE]
AfterExecute(rows) == [how |-> "returned", warned |-> rows # 1]

NoEntity == <<>>

\* the record of an operation: how it ended ("returned" / "raised"), the
\* value or entity it returned, the statement arguments it bound, the row
\* count execute reported (-1 when none) and whether it logged a warning
Op(op, key, how, ret, args, rows, warned, entity) ==
  [op |-> op, key |-> key, how |-> how, ret |-> ret, args |-> args,
   rows |-> rows, warned |-> warned, entity |-> entity]

NoOp == Op("none", "", "none", None, <<>>, -1, FALSE, NoEntity)

\* save() and a following find(): the values save bound per attribute, the
\* key it bound, whether that key was stored before
NoRoundTrip == [stage |-> "none", key |-> None, fresh |-> FALSE, bound |-> <<>>]

NoTrack == [explicit |-> {}, absent |-> {}, assigned |-> FALSE, gets |-> <<>>]

\* the classes instances are made of: a generated primary key `id` and
\* zero, one or two other fields
OrmBodies ==
  { <<Field("id", NoName, TRUE, "gen")>>,
    <<Field("id", NoName, TRUE, "gen"), Field("a", NoName, FALSE, "none")>>,
    <<Field("id", NoName, TRUE, "gen"), Field("a", NoName, FALSE, "static")>>,
    <<Field("id", NoName, TRUE, "gen"), Field("a", NoName, FALSE, "gen")>>,
    <<Field("id", NoName, TRUE, "gen"), Field("a", ColFor("a"), FALSE, "static")>>,
    <<Field("a", NoName, FALSE, "static"), Field("id", NoName, TRUE, "gen"),
      Field("b", NoName, FALSE, "gen")>>,
    <<Field("id", NoName, TRUE, "gen"), Field("a", NoName, FALSE, "gen"),
      Field("b", NoName, FALSE, "none")>> }

\* u = cls(**kw): any subset of the attributes given a value
New ==
  /\ phase = "new"
  /\ \E given \in SUBSET Attrs(cls) :
       /\ obj' = Instance(cls,
                   [a \in given |-> IF a = cls.primary_key THEN "k1" ELSE "u"])
       /\ track' = [explicit |-> given, absent |-> Attrs(cls) \ given,
                    assigned |-> FALSE, gets |-> [a \in Attrs(cls) |-> 0]]
  /\ phase' = "live"
  /\ UNCHANGED <<table, last, rt, nOps>>
  /\ UNCHANGED nonOrmVars

Live == phase = "live" /\ nOps < MaxOps

\* u.key = value (__setattr__)
SetAttr ==
  /\ Live
  /\ \E key \in Range(cls.fields), value \in {None, "v"} :
       /\ obj' = [obj EXCEPT !.d = SetItem(@, key, value)]
       /\ track' = [track EXCEPT !.explicit = @ \cup {key}, !.assigned = TRUE]
       /\ last' = Op("setattr", key, "returned", None, <<>>, -1, FALSE, NoEntity)
  /\ rt' = NoRoundTrip
  /\ nOps' = nOps + 1
  /\ UNCHANGED <<phase, table>>
  /\ UNCHANGED nonOrmVars

\* u.getValueOrDefault(key)
GetValueOrDefault ==
  /\ Live
  /\ \E key \in Attrs(cls) :
       LET r == getValueOrDefault(obj, cls, key) IN
       /\ obj' = r.o
       /\ track' = [track EXCEPT !.gets[key] = @ + 1]
       /\ last' = Op("getValueOrDefault", key, "returned", r.value, <<>>, -1,
                     FALSE, NoEntity)
  /\ rt' = NoRoundTrip
  /\ nOps' = nOps + 1
  /\ UNCHANGED <<phase, table>>
  /\ UNCHANGED nonOrmVars

\* yield from u.save()
Save ==
  /\ Live
  /\ LET r == SaveArgs(obj, cls)
         x == Run(cls.insert, r.args, table, cls)
         keys == Append(cls.fields, cls.primary_key)
         a == AfterExecute(x.rows)
     IN /\ obj' = r.o
        /\ table' = x.table
        /\ track' = [track EXCEPT !.gets = [k \in DOMAIN @ |-> @[k] + 1]]
        /\ last' = IF x.err
                   THEN Op("save", "", "raised", None, r.args, -1, FALSE, NoEntity)
                   ELSE Op("save", "", a.how, None, r.args, x.rows, a.warned, NoEntity)
        /\ rt' = [stage |-> "saved",
                  key |-> r.args[Len(r.args)],
                  fresh |-> r.args[Len(r.args)] \notin DOMAIN table,
                  bound |-> [k \in Attrs(cls) |-> r.args[Position(keys, k, 1)]]]
  /\ nOps' = nOps + 1
  /\ UNCHANGED phase
  /\ UNCHANGED nonOrmVars

\* yield from u.update()
Update ==
  /\ Live
  /\ LET args == UpdateArgs(obj, cls)
         x == Run(cls.update, args, table, cls)
         a == AfterExecute(x.rows)
     IN /\ table' = x.table
        /\ last' = IF x.err
                   THEN Op("update", "", "raised", None, args, -1, FALSE, NoEntity)
                   ELSE Op("update", "", a.how, None, args, x.rows, a.warned, NoEntity)
  /\ rt' = NoRoundTrip
  /\ nOps' = nOps + 1
  /\ UNCHANGED <<phase, obj, track>>
  /\ UNCHANGED nonOrmVars

\* yield from u.remove()
Remove ==
  /\ Live
  /\ LET args == RemoveArgs(obj, cls)
         x == Run(cls.delete, args, table, cls)
         a == AfterExecute(x.rows)
     IN /\ table' = x.table
        /\ last' = IF x.err
                   THEN Op("remove", "", "raised", None, args, -1, FALSE, NoEntity)
                   ELSE Op("remove", "", a.how, None, args, x.rows, a.warned, NoEntity)
  /\ rt' = NoRoundTrip
  /\ nOps' = nOps + 1
  /\ UNCHANGED <<phase, obj, track>>
  /\ UNCHANGED nonOrmVars

\* yield from cls.find(pk), with the instance's key or another one
Find ==
  /\ Live
  /\ \E pk \in ({getValue(obj, cls.primary_key), "k1"} \ {None}) :
       LET x == Run(FindStatement(cls), <<pk>>, table, cls) IN
       /\ last' = IF x.err
                  THEN Op("find", pk, "raised", None, <<pk>>, -1, FALSE, NoEntity)
                  ELSE IF Len(x.rs) = 0
                  THEN Op("find", pk, "returned", None, <<pk>>, -1, FALSE, NoEntity)
                  ELSE Op("find", pk, "returned", "entity", <<pk>>, -1, FALSE,
                          Entity(x.rs[1]))
       /\ rt' = IF rt.stage = "saved" /\ rt.key = pk
                THEN [rt EXCEPT !.stage = "found"] ELSE NoRoundTrip
  /\ nOps' = nOps + 1
  /\ UNCHANGED <<phase, obj, table, track>>
  /\ UNCHANGED nonOrmVars

(* ------------------------------------------------------------------ *)
(* Request dispatch: web_frame.py RequestHandler                       *)
(* ------------------------------------------------------------------ *)
\* inspect.signature(fn).parameters: a sequence of [name, kind, has_default]
Param(name, kind, has_default) ==
  [name |-> name, kind |-> kind, has_default |-> has_default]

\* the names of a sequence of parameters, in order
Names(params) == [i \in DOMAIN params |-> params[i].name]

IsKeywordOnly(p) == p.kind = "KEYWORD_ONLY"
IsRequiredKeywordOnly(p) == p.kind = "KEYWORD_ONLY" /\ ~p.has_default

\* get_required_kw_args(fn): keyword-only parameters without default
get_required_kw_args(params) == Names(SelectSeq(params, IsRequiredKeywordOnly))

\* get_named_kw_args(fn): keyword-only parameters
get_named_kw_args(params) == Names(SelectSeq(params, IsKeywordOnly))

has_named_kw_args(params) == \E i \in DOMAIN params : params[i].kind = "KEYWORD_ONLY"

has_var_kw_arg(params) == \E i \in DOMAIN params : params[i].kind = "VAR_KEYWORD"

\* has_request_arg(fn): [found, err]; err is the ValueError raised when a
\* plain positional parameter follows `request`
has_request_arg(params) ==
  [found |-> \E i \in DOMAIN params : params[i].name = "request",
   err   |-> \E i, j \in DOMAIN params :
               /\ i < j
               /\ params[i].name = "request"
               /\ params[j].name # "request"
               /\ params[j].kind \notin {"VAR_POSITIONAL", "KEYWORD_ONLY", "VAR_KEYWORD"}]

\* RequestHandler.__init__(app, fn)
RequestHandler(params) ==
  [_has_request_arg   |-> has_request_arg(params).found,
   _has_var_kw_arg    |-> has_var_kw_arg(params),
   _has_named_kw_args |-> has_named_kw_args(params),
   _named_kw_args     |-> get_named_kw_args(params),
   _required_kw_args  |-> get_required_kw_args(params)]

NoHandler ==
  [_has_request_arg |-> FALSE, _has_var_kw_arg |-> FALSE,
   _has_named_kw_args |-> FALSE, _named_kw_args |-> <<>>,
   _required_kw_args |-> <<>>]

\* the keyword mapping: name -> where the value came from
EmptyDict == <<>>
FromKeys(keys, v) == [k \in keys |-> v]

\* d with every entry of e put over it
Underlay(d, e) ==
  [k \in DOMAIN d \cup DOMAIN e |-> IF k \in DOMAIN d THEN d[k] ELSE e[k]]
Overlay(d, e) ==
  [k \in DOMAIN d \cup DOMAIN e |-> IF k \in DOMAIN e THEN e[k] ELSE d[k]]

\* a request: method, content type ("" when the header is missing), the
\* keys of its body or query string, whether a JSON body is an object, and
\* the placeholders the route matched
Request(method, content_type, keys, json_object, match_info) ==
  [method |-> method, content_type |-> content_type, keys |-> keys,
   json_object |-> json_object, match_info |-> match_info]

NoRequest == Request("", "", {}, TRUE, {})

\* a response or other outcome of the dispatcher
Outcome(kind, status, text, name) ==
  [kind |-> kind, status |-> status, text |-> text, name |-> name]
NoOutcome == Outcome("none", 0, "", "")
\* web.HTTPBadRequest(message): aiohttp's HTTPException takes its arguments
\* by keyword only (headers=, reason=, body=, text=, content_type=), so the
\* positional call raises TypeError and no response is built
HTTPBadRequest(text, name) == Outcome("TypeError", 0, text, name)

\* an exception a handler raises: APIError (or a subclass) with its error,
\* data and message, or any other exception
Exc(type, error, data, message) ==
  [type |-> type, error |-> error, data |-> data, message |-> message]
NoExc == Exc("", "", "", "")

\* phase 1 of __call__: the raw keyword mapping from body or query string;
\* [bad, kw, parsed]: a 400 response, else kw when parsed (kw is None
\* otherwise)
ParseRequest(h, req) ==
  LET none == [bad |-> NoOutcome, parsed |-> FALSE, kw |-> EmptyDict] IN
  IF ~(h._has_var_kw_arg \/ h._has_named_kw_args \/ h._required_kw_args # <<>>)
  THEN none
  ELSE IF req.method = "POST"
  THEN IF req.content_type = ""
       THEN [none EXCEPT !.bad = HTTPBadRequest("Missing Content-Type.", "")]
       ELSE IF req.content_type = "application/json"
       THEN IF ~req.json_object
            THEN [none EXCEPT !.bad = HTTPBadRequest("JSON body must be object.", "")]
            ELSE [none EXCEPT !.parsed = TRUE, !.kw = FromKeys(req.keys, "sent")]
       ELSE IF req.content_type \in
                 {"application/x-www-form-urlencoded", "multipart/form-data"}
       THEN [none EXCEPT !.parsed = TRUE, !.kw = FromKeys(req.keys, "sent")]
       ELSE [none EXCEPT !.bad = HTTPBadRequest("Unsupported Content-Type", "")]
  ELSE IF req.method = "GET" /\ req.keys # {}
  THEN [none EXCEPT !.parsed = TRUE, !.kw = FromKeys(req.keys, "sent")]
  ELSE none

\* remove all unamed kw: only the named keyword-only parameters are kept
KeepAll(h, d) == d
KeepNamed(h, d) ==
  IF ~h._has_var_kw_arg /\ h._named_kw_args # <<>>
  THEN [k \in DOMAIN d \cap Range(h._named_kw_args) |-> d[k]]
  ELSE d

\* the keyword mapping after match_info and the request object are put in
Reconcile(h, req, parse) ==
  LET withPath ==
        IF ~parse.parsed
        THEN FromKeys(req.match_info, "path")
        ELSE Overlay(KeepNamed(h, parse.kw), FromKeys(req.match_info, "path"))
  IN IF h._has_request_arg
     THEN Overlay(withPath, FromKeys({"request"}, "request object"))
     ELSE withPath

\* check required kw: the first required name that kw lacks, "" when none
RECURSIVE FirstMissing(_, _)
FirstMissing(required, d) ==
  IF required = <<>> THEN ""
  ELSE IF Head(required) \notin DOMAIN d THEN Head(required)
       ELSE FirstMissing(Tail(required), d)

\* handler signatures: fn([id][, request][, *, a[=..]][, b[=..]][, **kw]),
\* with `request` before or after the positional parameter
KwChoice == {"absent", "required", "optional"}

Signature(id, req, requestFirst, a, b, varkw) ==
  (IF requestFirst /\ req
   THEN <<Param("request", "POSITIONAL_OR_KEYWORD", FALSE)>> ELSE <<>>)
  \o (IF id THEN <<Param("id", "POSITIONAL_OR_KEYWORD", FALSE)>> ELSE <<>>)
  \o (IF ~requestFirst /\ req
      THEN <<Param("request", "POSITIONAL_OR_KEYWORD", FALSE)>> ELSE <<>>)
  \o (IF a # "absent" THEN <<Param("a", "KEYWORD_ONLY", a = "optional")>> ELSE <<>>)
  \o (IF b # "absent" THEN <<Param("b", "KEYWORD_ONLY", b = "optional")>> ELSE <<>>)
  \o (IF varkw THEN <<Param("kw", "VAR_KEYWORD", FALSE)>> ELSE <<>>)

Signatures ==
  {Signature(id, req, first, a, b, varkw) :
     id \in BOOLEAN, req \in BOOLEAN, first \in BOOLEAN,
     a \in KwChoice, b \in KwChoice, varkw \in BOOLEAN}

\* the placeholders of the route a handler is registered on: its plain
\* positional parameters other than request
Placeholders_of(params) ==
  {params[i].name : i \in {j \in DOMAIN params :
      params[j].kind = "POSITIONAL_OR_KEYWORD" /\ params[j].name # "request"}}

ContentTypes ==
  {"", "application/json", "application/x-www-form-urlencoded",
   "multipart/form-data", "text/plain"}

BodyKeys == {"a", "b", "id", "x", "request"}

\* what the route of a handler can capture: its placeholders, and for a
\* handler with a request parameter also a placeholder of that name
MatchInfos(params) ==
  {Placeholders_of(params)} \cup
  (IF has_request_arg(params).found
   THEN {Placeholders_of(params) \cup {"request"}} ELSE {})

Requests(match_info) ==
  {Request(m, ct, keys, isObject, match_info) :
     m \in {"GET", "POST"}, ct \in ContentTypes, keys \in SUBSET BodyKeys,
     isObject \in BOOLEAN}

\* requests that differ: a GET carries no body, only a JSON body can be a
\* non-object, and a body that is not parsed has no keys
Wellformed(r) ==
  /\ r.method = "GET" => (r.content_type = "" /\ r.json_object)
  /\ r.content_type # "application/json" => r.json_object
  /\ ~r.json_object => r.keys = {}
  /\ (r.method = "POST" /\ r.content_type \in {"", "text/plain"}) => r.keys = {}

(* ------------------------------------------------------------------ *)
(* Response normalizer: app.py response_factory                        *)
(* ------------------------------------------------------------------ *)
\* a Python value a handler can return: its type, and for the types the
\* normalizer looks into, the number, the characters, the items or the
\* entries
Py(type, n, s, items, map) ==
  [type |-> type, n |-> n, s |-> s, items |-> items, map |-> map]

PyNone == Py("NoneType", 0, <<>>, <<>>, <<>>)
PyInt(n) == Py("int", n, <<>>, <<>>, <<>>)
\* bool is a subclass of int: True is 1, False is 0
PyBool(b) == Py("bool", IF b THEN 1 ELSE 0, <<>>, <<>>, <<>>)
PyFloat(n) == Py("float", n, <<>>, <<>>, <<>>)
PyStr(s) == Py("str", 0, s, <<>>, <<>>)
PyBytes(s) == Py("bytes", 0, s, <<>>, <<>>)
PyTuple(items) == Py("tuple", 0, <<>>, items, <<>>)
PyList(items) == Py("list", 0, <<>>, items, <<>>)
PyDict(map) == Py("dict", 0, <<>>, <<>>, map)
\* a web.StreamResponse a handler built itself, with its status
PyResponse(status) == Py("StreamResponse", status, <<>>, <<>>, <<>>)

\* isinstance(v, int): int and its subclass bool
IsInt(v) == v.type \in {"int", "bool"}

\* the characters of a string literal
Redirect == <<"r", "e", "d", "i", "r", "e", "c", "t", ":">>

\* r.startswith(prefix)
StartsWith(s, prefix) ==
  Len(s) >= Len(prefix) /\ SubSeq(s, 1, Len(prefix)) = prefix

\* r[9:]
From(s, i) == SubSeq(s, i + 1, Len(s))

\* str(v) and repr(v) of the values a pair can hold
StrOf(v) ==
  IF v.type = "str" THEN v.s
  ELSE IF v.type = "NoneType" THEN <<"None">>
  ELSE IF v.type = "bool" THEN <<IF v.n = 1 THEN "True" ELSE "False">>
  ELSE <<ToString(v.n)>>
ReprOf(v) == IF v.type = "str" THEN <<"'">> \o v.s \o <<"'">> ELSE StrOf(v)

\* str(r) of a pair
StrOfPair(r) ==
  <<"(">> \o ReprOf(r.items[1]) \o <<",", " ">> \o ReprOf(r.items[2]) \o <<")">>

\* what response(request) gives back: a response (its class, status, body,
\* content type, redirect location), the value handed through, None, or
\* an exception
Wire(kind, status, body, content_type, location) ==
  [kind |-> kind, status |-> status, body |-> body,
   content_type |-> content_type, location |-> location]

NoWire == Wire("none", 0, PyNone, "", <<>>)
\* web.Response(body=..., status=..., text=...)
Response(status, body) == Wire("Response", status, body, "", <<>>)
\* web.HTTPFound(location)
HTTPFound(location) == Wire("HTTPFound", 302, PyNone, "", location)
\* a StreamResponse returned as it is
PassedThrough(r) == Wire("StreamResponse", r.n, r, "", <<>>)
\* the function ends without a return statement
ReturnsNone == Wire("None", 0, PyNone, "", <<>>)
\* an exception leaves response(request)
Raises(what) == Wire("raised", 0, PyNone, what, <<>>)

\* json.dumps(r, ...).encode('utf-8'): the JSON object with r's entries
JsonBytes(map) == Py("bytes", 0, <<"json">>, <<>>, map)
\* s.encode('utf-8')
Encode(s) == PyBytes(s)

\* web.Response(r): aiohttp's Response takes its arguments by keyword only
\* (body=, status=, text=, ...), so the positional call raises TypeError
ResponsePositional(r) == Raises("TypeError")

\* the end of response(request): no case matched, nothing is returned
FallsBackToText(r) ==
  [Response(200, Encode(<<"str(r)">>)) EXCEPT !.content_type = "text/plain;charset=utf-8"]
NoCaseMatched(r) == ReturnsNone

\* the branch for a dict with a '__template__' entry: rendered by jinja2
Rendered(r) ==
  [Response(200, Encode(<<"rendered">>)) EXCEPT !.content_type = "text/html;charset=utf-8"]

\* response(request) once handler(request) returned r
Normalized(r) ==
  IF r.type = "StreamResponse" THEN PassedThrough(r)
  ELSE IF r.type = "bytes"
  THEN [Response(200, r) EXCEPT !.content_type = "application/octet-stream"]
  ELSE IF r.type = "str"
  THEN IF StartsWith(r.s, Redirect)
       THEN HTTPFound(From(r.s, 9))
       ELSE [Response(200, Encode(r.s)) EXCEPT !.content_type = "text/html;charset=utf-8"]
  ELSE IF r.type = "dict"
  THEN IF "__template__" \notin DOMAIN r.map \/ r.map["__template__"] = "None"
       THEN [Response(200, JsonBytes(r.map))
               EXCEPT !.content_type = "application/json;charset=utf-8"]
       ELSE Rendered(r)
  ELSE IF IsInt(r) /\ r.n >= 100 /\ r.n < 600
  THEN ResponsePositional(r)
  ELSE IF r.type = "tuple" /\ Len(r.items) = 2
  THEN LET t == r.items[1]
           m == r.items[2]
       IN IF IsInt(t) /\ t.n >= 100 /\ t.n < 600
          THEN Response(t.n, PyStr(StrOf(m)))
          ELSE [Response(200, Encode(StrOfPair(r)))
                  EXCEPT !.content_type = "text/plain;charset=utf-8"]
  ELSE NoCaseMatched(r)

\* what the server does with the outcome of the middleware chain: a
\* response is sent with its status; an exception, or a value that is not
\* a response, ends as a server error
Sent(status, error) == [status |-> status, error |-> error]
NotSent == Sent(0, FALSE)
Served(w) ==
  IF w.kind \in {"Response", "HTTPFound", "StreamResponse"}
  THEN Sent(w.status, FALSE)
  ELSE Sent(500, TRUE)

\* the values a handler returns in the dispatch specification
HandlerValues ==
  {PyNone, PyDict([page |-> "P", blogs |-> "[]"]), PyStr(Redirect \o <<"/", "s">>)}

\* the values handed to the normalizer: every class of value it tells
\* apart, around the edges of each test
Ints == {0, 99, 100, 204, 404, 599, 600}
Strings ==
  {Redirect \o <<"/", "s">>, Redirect, <<"r", "e", "d", "i", "r", "e", "c", "t">>,
   <<"x">> \o Redirect, <<"<", "p", ">">>, <<>>}
Atoms ==
  {PyInt(n) : n \in Ints} \cup {PyStr(<<"m">>), PyNone, PyBool(TRUE), PyFloat(404)}
Messages == {PyStr(<<"m">>), PyNone, PyInt(5)}
Returns ==
  {PyInt(n) : n \in Ints} \cup {PyStr(x) : x \in Strings}
  \cup {PyTuple(<<t, m>>) : t \in Atoms, m \in Messages}
  \cup {PyTuple(<<>>), PyTuple(<<PyInt(404)>>),
        PyTuple(<<PyInt(404), PyStr(<<"m">>), PyStr(<<"m">>)>>)}
  \cup {PyList(<<>>), PyList(<<PyInt(404), PyStr(<<"m">>)>>)}
  \cup {PyDict(<<>>), PyDict([page |-> "P", blogs |-> "[]"]),
        PyDict([__template__ |-> "None", page |-> "P"]),
        PyDict([__template__ |-> "blogs.html", page |-> "P"])}
  \cup {PyResponse(200), PyResponse(404)}
  \cup {PyBytes(<<>>), PyBytes(Redirect \o <<"/">>)}
  \cup {PyNone, PyBool(TRUE), PyBool(FALSE), PyFloat(204)}

\* the exceptions a handler raises
APIErrors ==
  {Exc(t, e, d, m) :
     t \in {"APIError", "APIValueError"}, e \in {"register:failed", "value:invalid"},
     d \in {"email", ""}, m \in {"Email is already in use."}}
OtherErrors == {Exc("ValueError", "", "", "Invalid limit value")}

(* ------------------------------------------------------------------ *)
(* Queries: orm.py select, Model.findAll / findNumber / find           *)
(* ------------------------------------------------------------------ *)
\* the keys a table may hold, in the order of its primary index
KeyOf(i) == "k" \o ToString(i)
Keys == {KeyOf(i) : i \in 1..MaxRows}

\* the values of a non-key column
CellValues == {"u", "v"}

\* the collation: NULL first, then u < v < k1 < k2 < ...
ValueOrder == <<"u", "v">> \o [i \in 1..MaxRows |-> KeyOf(i)]
Rank(v) == Position(ValueOrder, v, 1)

\* an int argument as the driver writes it into the statement
Literal(n) == ToString(n)
Numbers == 0..(MaxRows + MaxLimit + 1)
IsNumber(a) == \E n \in Numbers : Literal(n) = a
NumberOf(a) == CHOOSE n \in Numbers : Literal(n) = a

\* the tokens of a select after  from `T`
AfterFrom(stmt, f) ==
  IF f = 0 \/ f + 1 > Len(stmt) THEN <<>> ELSE SubSeq(stmt, f + 2, Len(stmt))

\* the tokens of rest after the keyword at position i and before position
\* j, <<>> when the keyword is absent
Clause(rest, i, j) == IF i = 0 THEN <<>> ELSE SubSeq(rest, i + 1, j - 1)

\* the first of the positions i, j that is not 0, else n
FirstOf(i, j, n) == IF i # 0 THEN i ELSE IF j # 0 THEN j ELSE n

\* the text  [where wc] [order by oc] [limit lc]
Assembled(wc, oc, lc, w, o, l) ==
  (IF w = 0 THEN <<>> ELSE <<Kw("where")>> \o wc)
    \o (IF o = 0 THEN <<>> ELSE <<Kw("order by")>> \o oc)
    \o (IF l = 0 THEN <<>> ELSE <<Kw("limit")>> \o lc)

Cut(rest, wc, oc, lc, w, o, l) ==
  [where |-> wc, order |-> oc, limit |-> lc,
   ok |-> rest = Assembled(wc, oc, lc, w, o, l)]

ClausesAt(rest, w, o, l) ==
  Cut(rest, Clause(rest, w, FirstOf(o, l, Len(rest) + 1)),
      Clause(rest, o, FirstOf(l, 0, Len(rest) + 1)),
      Clause(rest, l, Len(rest) + 1), w, o, l)

ClausesOf(rest) ==
  ClausesAt(rest, IndexFrom(rest, Kw("where"), 1),
            IndexFrom(rest, Kw("order by"), 1), IndexFrom(rest, Kw("limit"), 1))

\* the clauses of a select after  from `T` : where, order by, limit, each
\* <<>> when absent; ok is FALSE when the text is not
\*   [where ...] [order by ...] [limit ...]
Clauses(stmt) == ClausesOf(AfterFrom(stmt, IndexFrom(stmt, Kw("from"), 1)))

\* a filter  c1=? and c2=? ... : its terms, and whether it is one
Terms(filter) == IF filter = <<>> THEN <<>> ELSE SplitOn(filter, Kw("and"))
IsFilter(filter) == \A i \in DOMAIN Terms(filter) : IsAssignment(Terms(filter)[i])

\* an order  col  or  col desc
IsOrder(o) ==
  o = <<>> \/ (Len(o) \in {1, 2} /\ o[1].k = "id" /\ (Len(o) = 2 => o[2] = Kw("desc")))

\* a limit  ?  or  ?,?
IsLimit(l) == l \in {<<>>, <<Kw("?")>>, <<Kw("?"), Kw(","), Kw("?")>>}

\* the keys of the rows every term of the filter selects, the i-th term
\* compared with the i-th argument
Filtered(tbl, filter, args) ==
  {k \in DOMAIN tbl :
     \A i \in DOMAIN Terms(filter) :
       args[i] # None /\ tbl[k][Terms(filter)[i][1].v] = args[i]}

\* row j comes before row k under the order (rows that compare equal come
\* in the order of the primary index)
Precedes(tbl, o, j, k) ==
  LET a == IF o = <<>> THEN 0 ELSE Rank(tbl[j][o[1].v])
      b == IF o = <<>> THEN 0 ELSE Rank(tbl[k][o[1].v])
  IN IF a # b THEN (IF Len(o) = 2 THEN a > b ELSE a < b)
     ELSE Rank(j) < Rank(k)

\* the keys S in that order
RECURSIVE Ordered(_, _, _)
Ordered(tbl, S, o) ==
  IF S = {} THEN <<>>
  ELSE LET k == CHOOSE x \in S : \A y \in S \ {x} : Precedes(tbl, o, x, y)
       IN <<k>> \o Ordered(tbl, S \ {k}, o)

\* rows  offset+1 .. offset+count  of s
Slice(s, offset, count) ==
  SubSeq(s, offset + 1, IF offset + count < Len(s) THEN offset + count ELSE Len(s))

\* limit ? (count)  /  limit ?,? (offset, count)  applied to s
Limited(s, l, largs) ==
  IF l = <<>> THEN s
  ELSE IF Len(l) = 1 THEN Slice(s, 0, NumberOf(largs[1]))
  ELSE Slice(s, NumberOf(largs[1]), NumberOf(largs[2]))

\* select fn(`x`) alias : the function, its column and the alias
IsAggregate(cols) ==
  /\ Len(cols) = 5
  /\ cols[1] \in {Kw("count"), Kw("max")}
  /\ cols[2] = Kw("(") /\ cols[3].k = "id" /\ cols[4] = Kw(")")
  /\ cols[5].k = "id"

\* count(x): the rows where x is not NULL; max(x): the greatest x, NULL
\* over no rows
Aggregate(fn, tbl, keys, x) ==
  LET vals == {tbl[keys[i]][x] : i \in DOMAIN keys} \ {None} IN
  IF fn = Kw("count") THEN Literal(Cardinality({i \in DOMAIN keys : tbl[keys[i]][x] # None}))
  ELSE IF vals = {} THEN None
  ELSE CHOOSE v \in vals : \A y \in vals : Rank(y) <= Rank(v)

\* the columns, the filter, the order and the limit are such, and the
\* arguments as many, as the database takes
Accepted(cols, names, cl, terms, args, largs, c) ==
  /\ \/ ColumnList(cols) /\ \A i \in DOMAIN names : names[i] \in Columns(c)
     \/ IsAggregate(cols) /\ cols[3].v \in Columns(c)
  /\ cl.ok /\ IsFilter(cl.where) /\ IsOrder(cl.order) /\ IsLimit(cl.limit)
  /\ \A i \in DOMAIN terms : terms[i][1].v \in Columns(c)
  /\ cl.order # <<>> => cl.order[1].v \in Columns(c)
  /\ Len(args) = Len(terms) + Placeholders(cl.limit)
  /\ \A i \in DOMAIN largs : IsNumber(largs[i])

\* the rows of the keys, in order, as name -> value; one row for an
\* aggregate
Rows(cols, names, tbl, keys) ==
  IF IsAggregate(cols)
  THEN <<[n \in {cols[5].v} |-> Aggregate(cols[1], tbl, keys, cols[3].v)]>>
  ELSE [i \in DOMAIN keys |-> [n \in Range(names) |-> tbl[keys[i]][n]]]

Answered(cols, names, cl, terms, args, largs, tbl, c) ==
  IF ~Accepted(cols, names, cl, terms, args, largs, c) THEN Refused(tbl)
  ELSE Done(tbl, 0,
            Limited(Rows(cols, names, tbl,
                         Ordered(tbl, Filtered(tbl, cl.where, args), cl.order)),
                    cl.limit, largs))

Parsed(cols, cl, terms, args, tbl, c) ==
  Answered(cols, Identifiers(cols), cl, terms, args,
           SubSeq(args, Len(terms) + 1, Len(args)), tbl, c)

\* select <columns | fn(x) alias> from `T` [where ...] [order by ...]
\* [limit ...] : the rows in order, as name -> value
RunQuery(stmt, args, tbl, c) ==
  IF ~ /\ stmt # <<>> /\ Head(stmt) = Kw("select")
       /\ IndexFrom(stmt, Kw("from"), 1) # 0
       /\ IndexFrom(stmt, Kw("from"), 1) < Len(stmt)
       /\ stmt[IndexFrom(stmt, Kw("from"), 1) + 1] = Id(c.table)
  THEN Refused(tbl)
  ELSE Parsed(SelectColumns(stmt), Clauses(stmt), Terms(Clauses(stmt).where),
              args, tbl, c)

\* rs = cur.fetchmany(size) if size else cur.fetchall()
Fetch(rs, size) == IF size # 0 THEN Slice(rs, 0, size) ELSE rs

\* select(sql, args, size=None): the rows, or the driver's error
Select(sql, args, size, tbl, c) ==
  LET x == RunQuery(sql, args, tbl, c) IN
  IF x.err THEN x ELSE Done(tbl, 0, Fetch(x.rs, size))

\* a call of a class method: findAll(where, args, orderBy=, limit=),
\* findNumber(selectField, where, args), find(pk)
Query(fn, where, args, orderBy, limit, selectField, pk) ==
  [fn |-> fn, where |-> where, args |-> args, orderBy |-> orderBy,
   limit |-> limit, selectField |-> selectField, pk |-> pk]
NoQuery == Query("none", <<>>, <<>>, <<>>, PyNone, <<>>, None)

\* how the call ended ("returned" / "raised" and the exception), how often
\* it called select, the statement and arguments it handed to select, the
\* entities it built and the value it returned ("list", "entity", None or
\* the number of findNumber)
Answer(how, what, selects, sql, args, rows, value) ==
  [how |-> how, what |-> what, selects |-> selects, sql |-> sql,
   args |-> args, rows |-> rows, value |-> value]
NoAnswer == Answer("none", "", 0, <<>>, <<>>, <<>>, None)

\* the caller's side of findAll: whether it passed a list as args (given),
\* what that list holds now, and how many calls it made with it
Caller(given, args, calls) == [given |-> given, args |-> args, calls |-> calls]
NoCaller == Caller(FALSE, <<>>, 0)

\* isinstance(limit, tuple) and len(limit) == 2
IsTuple(limit) == limit.type = "tuple"
IsPair(limit) == limit.type = "tuple" /\ Len(limit.items) = 2

\* args.append(limit) / args.extend(limit)
PrependLimit(args, values) == values \o args
AppendLimit(args, values) == args \o values

\* the limit clause of findAll and the arguments it adds; ok is FALSE
\* where findAll raises ValueError
LimitClause(limit) ==
  IF limit = PyNone
  THEN [ok |-> TRUE, sql |-> <<>>, args |-> <<>>]
  ELSE IF IsInt(limit)
  THEN [ok |-> TRUE, sql |-> <<Kw("limit"), Kw("?")>>, args |-> <<Literal(limit.n)>>]
  ELSE IF IsPair(limit)
  THEN [ok |-> TRUE, sql |-> <<Kw("limit"), Kw("?"), Kw(","), Kw("?")>>,
        args |-> [i \in DOMAIN limit.items |-> Literal(limit.items[i].n)]]
  ELSE [ok |-> FALSE, sql |-> <<>>, args |-> <<>>]

\* the list passed as args once findAll is over: args.append(limit) and
\* args.extend(limit) act on the caller's list; nothing is added where
\* there is no limit or where ValueError is raised
ArgsAfter(args, limit) ==
  IF LimitClause(limit).ok THEN AppendLimit(args, LimitClause(limit).args) ELSE args

\* sql.append('where'); sql.append(where)
WhereClause(where) == IF where # <<>> THEN <<Kw("where")>> \o where ELSE <<>>

\* cls.findAll(where, args, orderBy=orderBy, limit=limit)
findAll(c, where, args, orderBy, limit, tbl) ==
  LET lim   == LimitClause(limit)
      sql   == c.select \o WhereClause(where)
                 \o (IF orderBy # <<>> THEN <<Kw("order by")>> \o orderBy ELSE <<>>)
                 \o lim.sql
      bound == AppendLimit(args, lim.args)
  IN IF ~lim.ok
     THEN Answer("raised", "ValueError", 0, <<>>, <<>>, <<>>, None)
     ELSE LET x == Select(sql, bound, 0, tbl, c) IN
          IF x.err
          THEN Answer("raised", "DatabaseError", 1, sql, bound, <<>>, None)
          ELSE Answer("returned", "", 1, sql, bound,
                      [i \in DOMAIN x.rs |-> Entity(x.rs[i])], "list")

\* if len(rs) == 0: return None
AlwaysAbsent(rs) == TRUE
Absent(rs) == Len(rs) = 0

\* cls.findNumber(selectField, where, args)
findNumber(c, selectField, where, args, tbl) ==
  LET sql == <<Kw("select")>> \o selectField
               \o <<Id("_num_"), Kw("from"), Id(c.table)>> \o WhereClause(where)
      x   == Select(sql, args, 1, tbl, c)
  IN IF x.err THEN Answer("raised", "DatabaseError", 1, sql, args, <<>>, None)
     ELSE IF Absent(x.rs) THEN Answer("returned", "", 1, sql, args, <<>>, None)
     ELSE Answer("returned", "", 1, sql, args, <<>>, x.rs[1]["_num_"])

\* cls.find(pk)
find(c, pk, tbl) ==
  LET x == Select(FindStatement(c), <<pk>>, 1, tbl, c) IN
  IF x.err THEN Answer("raised", "DatabaseError", 1, FindStatement(c), <<pk>>, <<>>, None)
  ELSE IF Absent(x.rs)
  THEN Answer("returned", "", 1, FindStatement(c), <<pk>>, <<>>, None)
  ELSE Answer("returned", "", 1, FindStatement(c), <<pk>>, <<Entity(x.rs[1])>>, "entity")

\* the classes queried: a key only, a key and a field, a key and a field
\* stored in a column of another name
QueryBodies ==
  { <<Field("id", NoName, TRUE, "gen")>>,
    <<Field("id", NoName, TRUE, "gen"), Field("a", NoName, FALSE, "none")>>,
    <<Field("id", NoName, TRUE, "gen"), Field("a", ColFor("a"), FALSE, "none")>> }

\* the tables of class c: up to MaxRows rows, each stored under its key
Tables(c) ==
  UNION {{[k \in S |-> [col \in Columns(c) |->
                         IF col = KeyColumn(c) THEN k ELSE f[k]]] :
            f \in [S -> CellValues]} : S \in SUBSET Keys}

\* the filters a caller passes with their arguments: none, one column, the
\* key and one column
Equals(col) == <<Id(col), Kw("="), Kw("?")>>
Filters(c) ==
  {[where |-> <<>>, args |-> <<>>]}
    \cup {[where |-> Equals(KeyColumn(c)), args |-> <<KeyOf(1)>>]}
    \cup {[where |-> Equals(col), args |-> <<v>>] :
            col \in Columns(c) \ {KeyColumn(c)}, v \in CellValues}
    \cup {[where |-> Equals(KeyColumn(c)) \o <<Kw("and")>> \o Equals(col),
           args |-> <<k, v>>] :
            col \in Columns(c) \ {KeyColumn(c)}, k \in {KeyOf(1), KeyOf(2)},
            v \in CellValues}

\* orderBy: none, a column, a column descending
Orders(c) ==
  {<<>>} \cup {<<Id(col)>> : col \in Columns(c)}
         \cup {<<Id(col), Kw("desc")>> : col \in Columns(c)}

\* limit: an int (True is one), an (offset, count) pair
GoodLimits ==
  {PyInt(n) : n \in 0..MaxLimit} \cup {PyBool(TRUE)}
    \cup {PyTuple(<<PyInt(o), PyInt(n)>>) : o \in 0..MaxLimit, n \in 0..MaxLimit}
\* and every other shape
BadLimits ==
  {PyTuple(<<>>), PyTuple(<<PyInt(1)>>), PyTuple(<<PyInt(0), PyInt(1), PyInt(1)>>),
   PyList(<<PyInt(0), PyInt(1)>>), PyStr(<<"1">>), PyFloat(1)}
Limits == {PyNone} \cup GoodLimits \cup BadLimits

\* selectField: count(`key`), max(`col`)
SelectFields(c) ==
  {<<Kw(fn), Kw("("), Id(col), Kw(")")>> : fn \in {"count", "max"}, col \in Columns(c)}

(* ------------------------------------------------------------------ *)
(* Pool lifetime: app.py init and main, test_orm.py                    *)
(* ------------------------------------------------------------------ *)
\* the pool: "open" since create_pool, "closing" since close(), "closed"
\* when wait_closed() returned; the program that created it; whether the
\* program's event loop still runs
Pool(state, program, running) ==
  [state |-> state, program |-> program, running |-> running]
Open == Pool("open", "none", TRUE)

\* app.py serves requests until it is stopped; test_orm.py runs one
\* coroutine to its end
Programs == {"app", "test_orm"}

\* the calls of select / execute that have not ended
InFlight == {p \in Procs : pc[p] \notin {"idle", "done"}}
\* a call ended by raising
Failed == \E p \in Procs : result[p].how = "raised"

(* ------------------------------------------------------------------ *)
(* Concurrent tasks: Model.save, handlers.py api_register_user         *)
(* ------------------------------------------------------------------ *)
\* a task of the event loop: the coroutine it runs (fn), where it is
\* suspended (at), the instance it saves (o), the arguments save bound
\* (args), the number of entities findAll returned to it (users), the row
\* count execute reported (rows, -1 when none), how it ended and with what
Task(fn, at, o, args, users, rows, how, what) ==
  [fn |-> fn, at |-> at, o |-> o, args |-> args, users |-> users,
   rows |-> rows, how |-> how, what |-> what]
NoTask == Task("none", "idle", NoInstance, <<>>, 0, -1, "none", "")
NoTasks == [p \in Procs |-> NoTask]

\* the key of the instance task p saves: the tasks' keys differ
OwnKey(p) == KeyOf(p)

\* the attribute stored in column col
AttrOf(c, col) ==
  (CHOOSE m \in Range(c.mappings) : ColumnName(m) = col).attr

\* the row that holds, column by column, the attribute values of instance o
RowOf(c, o) == [col \in Columns(c) |-> getValue(o, AttrOf(c, col))]

\* the instances the tasks save: the task's own key, any value elsewhere
Instances(c, p) ==
  {Instance(c, [a \in Attrs(c) |-> IF a = c.primary_key THEN OwnKey(p) ELSE f[a]]) :
     f \in [Attrs(c) -> CellValues]}

\* the User of handlers.py as api_register_user uses it: the id it gives
\* the instance and the email it looks up and stores
UserBody ==
  <<Field("id", NoName, TRUE, "gen"), Field("email", NoName, FALSE, "none")>>
User == MetaNew("users", UserBody).class

\* the email of the request task p handles, and of the User it builds
EmailOf(t) == getValue(t.o, "email")

\* User.findAll('email=?', [email])
FindByEmail(email, tbl) ==
  findAll(User, Equals("email"), <<email>>, <<>>, PyNone, tbl)

\* a stored row already holds the email
EmailStored(email, tbl) == \E k \in DOMAIN tbl : tbl[k]["email"] = email

(* ------------------------------------------------------------------ *)
(* Blog management: handlers.py api_create_blog / modify / delete      *)
(* ------------------------------------------------------------------ *)
\* a request for a blog route: the handler of the route and its path, the
\* user its cookie stands for ("none", "user" or "admin"), the body field
\* that is blank ("none" when all are given), whether the blog of the id
\* exists; where the request is (at), the calls on Blog it made, how it
\* ended and with what
Api(fn, path, user, blank, exists, at, calls, how, what) ==
  [handler |-> fn, path |-> path, user |-> user, blank |-> blank,
   exists |-> exists, at |-> at, calls |-> calls, how |-> how, what |-> what]
NoApi == Api("none", <<>>, "none", "none", FALSE, "idle", <<>>, "none", "")

\* the blog routes and their handlers
Routes ==
  [api_create_blog    |-> <<"api", "blogs">>,
   api_delete_blog    |-> <<"api", "blogs", "{id}", "delete">>,
   api_modify_blog    |-> <<"api", "blogs", "modify">>,
   manage_create_blog |-> <<"manage", "blogs", "create">>]

\* request.__user__ is None or not request.__user__.admin
NotAdmin(user) == user = "none" \/ user # "admin"

\* auth_factory: request.path.startswith('/manage/') and no administrator
RedirectsToSignin(path, user) == path[1] = "manage" /\ NotAdmin(user)

\* how a handler ends: the calls it made on Blog, in order
HandlerEnd(how, what, calls) == [how |-> how, what |-> what, calls |-> calls]

\* check_admin raises APIPermissionError, a name handlers.py never
\* imports: the raise statement itself raises NameError
check_admin(user) == IF NotAdmin(user) THEN "NameError" ELSE ""

\* the three not ... or not ....strip() tests on name, summary, content
BlankField(blank) == IF blank = "none" THEN "" ELSE "APIValueError"

api_create_blog(user, blank) ==
  IF check_admin(user) # "" THEN HandlerEnd("raised", check_admin(user), <<>>)
  ELSE IF BlankField(blank) # "" THEN HandlerEnd("raised", BlankField(blank), <<>>)
  ELSE HandlerEnd("returned", "", <<"save">>)

api_delete_blog(user, exists) ==
  IF check_admin(user) # "" THEN HandlerEnd("raised", check_admin(user), <<>>)
  ELSE IF ~exists THEN HandlerEnd("raised", "APIResourceNotFoundError", <<"find">>)
  ELSE HandlerEnd("returned", "", <<"find", "remove">>)

\* no check_admin; blog.name = name on the None that find returned raises
\* AttributeError
api_modify_blog(blank, exists) ==
  IF BlankField(blank) # "" THEN HandlerEnd("raised", BlankField(blank), <<>>)
  ELSE IF ~exists THEN HandlerEnd("raised", "AttributeError", <<"find">>)
  ELSE HandlerEnd("returned", "", <<"find", "update">>)

\* the page with the editor: a template, no call on Blog
manage_create_blog == HandlerEnd("returned", "", <<>>)

(* ------------------------------------------------------------------ *)
(* Specifications                                                      *)
(* ------------------------------------------------------------------ *)
\* the pool as create_pool leaves it, no call in flight
PoolIdle ==
  /\ pc = [p \in Procs |-> "idle"]
  /\ call = [p \in Procs |-> NoCall]
  /\ conn = [p \in Procs |-> NoConn]
  /\ free = Conns
  /\ ev = [p \in Procs |-> <<>>]
  /\ caught = [p \in Procs |-> NoErr]
  /\ result = [p \in Procs |-> NoResult]

\* no class defined yet
SchemaIdle ==
  /\ attrs = <<>>
  /\ cls = NoClass
  /\ derived = "pending"

\* no instance, an empty table
OrmIdle ==
  /\ phase = "new"
  /\ obj = NoInstance
  /\ table = <<>>
  /\ track = NoTrack
  /\ last = NoOp
  /\ rt = NoRoundTrip
  /\ nOps = 0

\* no query made
QueryIdle == query = NoQuery /\ answer = NoAnswer /\ caller = NoCaller

\* the pool open, no task started, no blog request
RestIdle == pool = Open /\ task = NoTasks /\ api = NoApi

\* no handler registered, no request
DispatchIdle ==
  /\ func = <<>>
  /\ handler = NoHandler
  /\ request = NoRequest
  /\ stage = "received"
  /\ kw = EmptyDict
  /\ response = NoOutcome
  /\ invoked = 0
  /\ exc = NoExc
  /\ returned = PyNone
  /\ wire = NoWire
  /\ sent = NotSent

InitPool ==
  /\ PoolIdle
  /\ SchemaIdle
  /\ OrmIdle
  /\ DispatchIdle
  /\ QueryIdle /\ RestIdle

NextPool ==
  \E p \in Procs :
    \/ Call(p)
    \/ Acquire(p)
    \/ AcquireFail(p)
    \/ OpOk(p)
    \/ OpFail(p)
    \/ RollbackOk(p)
    \/ RollbackFail(p)
    \/ Finish(p)

SpecPool == InitPool /\ [][NextPool]_vars

InitSchema ==
  /\ PoolIdle
  /\ OrmIdle
  /\ DispatchIdle
  /\ QueryIdle /\ RestIdle
  /\ \E n \in 0..MaxFields : \E b \in ClassBodies(n) : attrs = BodyItems(b)
  /\ cls = NoClass
  /\ derived = "pending"

\* the class statement runs the metaclass once
DefineClass ==
  /\ derived = "pending"
  /\ LET r == MetaNew(TableName, attrs) IN
       /\ derived' = IF r.err = "" THEN "ok" ELSE r.err
       /\ cls' = r.class
  /\ UNCHANGED attrs
  /\ UNCHANGED nonSchemaVars

NextSchema == DefineClass

SpecSchema == InitSchema /\ [][NextSchema]_vars

\* a class has been defined; one instance of it is made and used
InitOrm ==
  /\ PoolIdle
  /\ OrmIdle
  /\ DispatchIdle
  /\ QueryIdle /\ RestIdle
  /\ attrs \in OrmBodies
  /\ cls = MetaNew(TableName, attrs).class
  /\ derived = "ok"

NextOrm ==
  \/ New
  \/ SetAttr
  \/ GetValueOrDefault
  \/ Save
  \/ Update
  \/ Remove
  \/ Find

SpecOrm == InitOrm /\ [][NextOrm]_vars

\* add_route: the handler is registered (has_request_arg did not raise) and
\* a request for its route arrives
InitDispatch ==
  /\ PoolIdle /\ SchemaIdle /\ OrmIdle /\ QueryIdle /\ RestIdle
  /\ func \in {s \in Signatures : ~has_request_arg(s).err}
  /\ handler = RequestHandler(func)
  /\ \E mi \in MatchInfos(func) :
       request \in {r \in Requests(mi) : Wellformed(r)}
  /\ stage = "received"
  /\ kw = EmptyDict
  /\ response = NoOutcome
  /\ invoked = 0
  /\ exc = NoExc
  /\ returned = PyNone
  /\ wire = NoWire
  /\ sent = NotSent

\* __call__ up to the call of the handler: a 400 response, or the handler
\* is called with kw
Bind ==
  /\ stage = "received"
  /\ LET parse   == ParseRequest(handler, request)
         args    == Reconcile(handler, request, parse)
         missing == FirstMissing(handler._required_kw_args, args)
     IN IF parse.bad # NoOutcome
        THEN /\ response' = parse.bad
             /\ stage' = "done"
             /\ UNCHANGED <<kw, invoked>>
        ELSE IF missing # ""
        THEN /\ response' = HTTPBadRequest("Missing argument", missing)
             /\ kw' = args
             /\ stage' = "done"
             /\ UNCHANGED invoked
        ELSE /\ kw' = args
             /\ invoked' = invoked + 1
             /\ stage' = "called"
             /\ UNCHANGED response
  /\ UNCHANGED <<func, handler, request, exc, returned, wire, sent>>
  /\ UNCHANGED nonDispatchVars

\* r = yield from self._func(**kw): the handler returns a value, which
\* __call__ returns
HandlerReturns ==
  /\ stage = "called"
  /\ \E v \in HandlerValues : returned' = v
  /\ response' = Outcome("returned", 0, "", "")
  /\ stage' = "done"
  /\ UNCHANGED <<func, handler, request, kw, invoked, exc, wire, sent>>
  /\ UNCHANGED nonDispatchVars

\* the handler raises APIError: except APIError as e returns
\* dict(error=e.error, data=e.data, message=e.message)
APIErrorNotCaught ==
  /\ stage = "called"
  /\ \E e \in APIErrors : exc' = e
  /\ response' = Outcome("raised", 0, "", "")
  /\ stage' = "done"
  /\ UNCHANGED <<func, handler, request, kw, invoked, returned, wire, sent>>
  /\ UNCHANGED nonDispatchVars
HandlerRaisesAPIError ==
  /\ stage = "called"
  /\ \E e \in APIErrors :
       /\ exc' = e
       /\ returned' = PyDict([error |-> e.error, data |-> e.data, message |-> e.message])
  /\ response' = Outcome("dict", 0, "", "")
  /\ stage' = "done"
  /\ UNCHANGED <<func, handler, request, kw, invoked, wire, sent>>
  /\ UNCHANGED nonDispatchVars

\* the handler raises anything else: it leaves __call__
HandlerRaisesOther ==
  /\ stage = "called"
  /\ \E e \in OtherErrors : exc' = e
  /\ response' = Outcome("raised", 0, "", "")
  /\ stage' = "done"
  /\ UNCHANGED <<func, handler, request, kw, invoked, returned, wire, sent>>
  /\ UNCHANGED nonDispatchVars

\* response(request) after r = yield from handler(request): an exception
\* of the handler chain passes through, a returned value is normalized
Normalize ==
  /\ stage = "done"
  /\ wire' = IF response.kind = "TypeError" THEN Raises("TypeError")
             ELSE IF response.kind = "raised" THEN Raises(exc.type)
             ELSE Normalized(returned)
  /\ stage' = "normalized"
  /\ UNCHANGED <<func, handler, request, kw, response, invoked, exc, returned, sent>>
  /\ UNCHANGED nonDispatchVars

\* the server sends the response, or answers a server error
Serve ==
  /\ stage = "normalized"
  /\ sent' = Served(wire)
  /\ stage' = "served"
  /\ UNCHANGED <<func, handler, request, kw, response, invoked, exc, returned, wire>>
  /\ UNCHANGED nonDispatchVars

NextDispatch ==
  \/ Bind
  \/ HandlerReturns
  \/ HandlerRaisesAPIError
  \/ HandlerRaisesOther
  \/ Normalize
  \/ Serve

SpecDispatch == InitDispatch /\ [][NextDispatch]_vars

\* a handler was called and returned a value to response(request)
InitRespond ==
  /\ PoolIdle /\ SchemaIdle /\ OrmIdle /\ QueryIdle /\ RestIdle
  /\ func = <<>>
  /\ handler = NoHandler
  /\ request = NoRequest
  /\ stage = "done"
  /\ kw = EmptyDict
  /\ response = Outcome("returned", 0, "", "")
  /\ invoked = 1
  /\ exc = NoExc
  /\ returned \in Returns
  /\ wire = NoWire
  /\ sent = NotSent

NextRespond ==
  \/ Normalize
  \/ Serve

SpecRespond == InitRespond /\ [][NextRespond]_vars

\* a class and its table, no query made yet
InitQuery ==
  /\ PoolIdle /\ DispatchIdle /\ QueryIdle /\ RestIdle
  /\ attrs \in QueryBodies
  /\ cls = MetaNew(TableName, attrs).class
  /\ derived = "ok"
  /\ phase = "new" /\ obj = NoInstance /\ track = NoTrack /\ last = NoOp
  /\ rt = NoRoundTrip /\ nOps = 0
  /\ table \in Tables(cls)

\* findAll(where, args, orderBy=, limit=): args a list of the caller's, or
\* left out (None) where the filter has no placeholder
FindAll ==
  /\ answer = NoAnswer
  /\ \E f \in Filters(cls), orderBy \in Orders(cls), limit \in Limits :
       /\ query' = Query("findAll", f.where, f.args, orderBy, limit, <<>>, None)
       /\ answer' = findAll(cls, f.where, f.args, orderBy, limit, table)
       /\ caller' = IF f.args # <<>> THEN Caller(TRUE, ArgsAfter(f.args, limit), 1)
                    ELSE Caller(FALSE, <<>>, 1)
  /\ UNCHANGED nonQueryVars

\* the same call once more, with the same list and the same limit
FindAllAgain ==
  /\ query.fn = "findAll" /\ caller.given /\ caller.calls = 1
  /\ query.limit # PyNone
  /\ query' = [query EXCEPT !.args = caller.args]
  /\ answer' = findAll(cls, query.where, caller.args, query.orderBy, query.limit, table)
  /\ caller' = Caller(TRUE, ArgsAfter(caller.args, query.limit), caller.calls + 1)
  /\ UNCHANGED nonQueryVars

FindNumber ==
  /\ answer = NoAnswer
  /\ \E f \in Filters(cls), selectField \in SelectFields(cls) :
       /\ query' = Query("findNumber", f.where, f.args, <<>>, PyNone, selectField, None)
       /\ answer' = findNumber(cls, selectField, f.where, f.args, table)
  /\ UNCHANGED caller
  /\ UNCHANGED nonQueryVars

FindByKey ==
  /\ answer = NoAnswer
  /\ \E pk \in Keys :
       /\ query' = Query("find", <<>>, <<>>, <<>>, PyNone, <<>>, pk)
       /\ answer' = find(cls, pk, table)
  /\ UNCHANGED caller
  /\ UNCHANGED nonQueryVars

NextQuery ==
  \/ FindAll
  \/ FindAllAgain
  \/ FindNumber
  \/ FindByKey

SpecQuery == InitQuery /\ [][NextQuery]_vars

\* create_pool has run: in app.py's init, or in the coroutine test_orm.py runs
InitShutdown ==
  /\ PoolIdle /\ SchemaIdle /\ OrmIdle /\ DispatchIdle /\ QueryIdle
  /\ pool \in {Pool("open", program, TRUE) : program \in Programs}
  /\ task = NoTasks
  /\ api = NoApi

\* while the loop runs, select and execute are called and take their steps
Running ==
  /\ pool.running /\ pool.state = "open"
  /\ NextPool

\* app.py: loop.run_forever() is left (KeyboardInterrupt, the process is
\* killed); no statement follows it
Stop ==
  /\ pool.program = "app" /\ pool.running
  /\ pool' = [pool EXCEPT !.running = FALSE]
  /\ UNCHANGED <<poolVars, schemaVars, ormVars, dispatchVars, queryVars, task, api>>

\* test_orm.py: loop.run_until_complete(test_update(loop)) raises what the
\* coroutine raised, and the script ends there
ScriptFails ==
  /\ pool.program = "test_orm" /\ pool.running /\ pool.state = "open"
  /\ InFlight = {} /\ Failed
  /\ pool' = [pool EXCEPT !.running = FALSE]
  /\ UNCHANGED <<poolVars, schemaVars, ormVars, dispatchVars, queryVars, task, api>>

\* test_orm.py: the coroutine has returned; __pool.close()
ClosePool ==
  /\ pool.program = "test_orm" /\ pool.running /\ pool.state = "open"
  /\ InFlight = {} /\ ~Failed
  /\ pool' = [pool EXCEPT !.state = "closing"]
  /\ UNCHANGED <<poolVars, schemaVars, ormVars, dispatchVars, queryVars, task, api>>

\* test_orm.py: loop.run_until_complete(__pool.wait_closed()): the idle
\* connections are closed once no connection is checked out
WaitClosed ==
  /\ pool.running /\ pool.state = "closing"
  /\ \A p \in Procs : conn[p] = NoConn
  /\ free' = {}
  /\ pool' = [pool EXCEPT !.state = "closed"]
  /\ UNCHANGED <<pc, call, conn, ev, caught, result>>
  /\ UNCHANGED <<schemaVars, ormVars, dispatchVars, queryVars, task, api>>

\* test_orm.py: loop.close(), the end of the script
Exit ==
  /\ pool.running /\ pool.state = "closed"
  /\ pool' = [pool EXCEPT !.running = FALSE]
  /\ UNCHANGED <<poolVars, schemaVars, ormVars, dispatchVars, queryVars, task, api>>

NextShutdown ==
  \/ Running
  \/ Stop
  \/ ScriptFails
  \/ ClosePool
  \/ WaitClosed
  \/ Exit

SpecShutdown == InitShutdown /\ [][NextShutdown]_vars

\* a class, its table without the tasks' keys, and one task per instance,
\* each about to call save()
InitSave ==
  /\ PoolIdle /\ DispatchIdle /\ QueryIdle
  /\ attrs \in QueryBodies
  /\ cls = MetaNew(TableName, attrs).class
  /\ derived = "ok"
  /\ phase = "new" /\ obj = NoInstance /\ track = NoTrack /\ last = NoOp
  /\ rt = NoRoundTrip /\ nOps = 0
  /\ table \in {t \in Tables(cls) : \A p \in Procs : OwnKey(p) \notin DOMAIN t}
  /\ \E f \in [Procs -> UNION {Instances(cls, p) : p \in Procs}] :
       /\ \A p \in Procs : f[p] \in Instances(cls, p)
       /\ task = [p \in Procs |-> Task("save", "start", f[p], <<>>, 0, -1, "none", "")]
  /\ pool = Open
  /\ api = NoApi

\* save: args = list(map(self.getValueOrDefault, self.__fields__)) and the
\* primary key appended; execute is entered
SaveBind(p) ==
  /\ task[p].fn = "save" /\ task[p].at = "start"
  /\ LET r == SaveArgs(task[p].o, cls) IN
       task' = [task EXCEPT ![p].o = r.o, ![p].args = r.args, ![p].at = "acquire"]
  /\ UNCHANGED <<conn, free, table>>
  /\ UNCHANGED nonTaskVars

\* execute: with (yield from __pool) as conn, when a connection is free
SaveAcquire(p) ==
  /\ task[p].fn = "save" /\ task[p].at = "acquire"
  /\ \E c \in free :
       /\ free' = free \ {c}
       /\ conn' = [conn EXCEPT ![p] = c]
  /\ task' = [task EXCEPT ![p].at = "exec"]
  /\ UNCHANGED table
  /\ UNCHANGED nonTaskVars

\* execute: yield from cur.execute(sql.replace('?', '%s'), args) with the
\* insert statement; when the driver raises, the exception leaves execute
\* and save, and the with statement gives the connection back
SaveExecute(p) ==
  /\ task[p].fn = "save" /\ task[p].at = "exec"
  /\ LET x == Run(cls.insert, task[p].args, table, cls) IN
       /\ table' = x.table
       /\ IF x.err
          THEN /\ task' = [task EXCEPT ![p].at = "done", ![p].how = "raised",
                                       ![p].what = "DatabaseError"]
               /\ free' = free \cup {conn[p]}
               /\ conn' = [conn EXCEPT ![p] = NoConn]
          ELSE /\ task' = [task EXCEPT ![p].at = "close", ![p].rows = x.rows]
               /\ UNCHANGED <<conn, free>>
  /\ UNCHANGED nonTaskVars

\* execute: affected = cur.rowcount, yield from cur.close(), return; save
\* compares rows with 1 and returns
SaveReturn(p) ==
  /\ task[p].fn = "save" /\ task[p].at = "close"
  /\ task' = [task EXCEPT ![p].at = "done",
                          ![p].how = AfterExecute(task[p].rows).how]
  /\ free' = free \cup {conn[p]}
  /\ conn' = [conn EXCEPT ![p] = NoConn]
  /\ UNCHANGED table
  /\ UNCHANGED nonTaskVars

NextSave ==
  \E p \in Procs :
    \/ SaveBind(p)
    \/ SaveAcquire(p)
    \/ SaveExecute(p)
    \/ SaveReturn(p)

SpecSave == InitSave /\ [][NextSave]_vars

\* the users table without the ids the tasks will draw, and one
\* registration request per task, each with a valid name, email and passwd
InitRegister ==
  /\ PoolIdle /\ DispatchIdle /\ QueryIdle
  /\ attrs = UserBody
  /\ cls = User
  /\ derived = "ok"
  /\ phase = "new" /\ obj = NoInstance /\ track = NoTrack /\ last = NoOp
  /\ rt = NoRoundTrip /\ nOps = 0
  /\ table \in {t \in Tables(User) : \A p \in Procs : OwnKey(p) \notin DOMAIN t}
  /\ \E e \in [Procs -> CellValues] :
       task = [p \in Procs |->
                 Task("api_register_user", "start",
                      Instance(User, [a \in {"email"} |-> e[p]]),
                      <<>>, 0, -1, "none", "")]
  /\ pool = Open
  /\ api = NoApi

\* the three validations pass and the handler suspends in
\* users = yield from User.findAll('email=?', [email])
RegisterCall(p) ==
  /\ task[p].fn = "api_register_user" /\ task[p].at = "start"
  /\ task' = [task EXCEPT ![p].at = "findAll", ![p].args = <<EmailOf(task[p])>>]
  /\ UNCHANGED <<conn, free, table>>
  /\ UNCHANGED nonTaskVars

\* the select of findAll runs and the handler resumes with users
RegisterFind(p) ==
  /\ task[p].fn = "api_register_user" /\ task[p].at = "findAll"
  /\ task' = [task EXCEPT ![p].at = "found",
                          ![p].users = Len(FindByEmail(task[p].args[1], table).rows)]
  /\ UNCHANGED <<conn, free, table>>
  /\ UNCHANGED nonTaskVars

\* if len(users) > 0: raise APIError('register:failed', ...); otherwise
\* uid = next_id(), user = User(id=uid, email=email, ...) and the handler
\* suspends in yield from user.save() with the insert arguments bound
RegisterDecide(p) ==
  /\ task[p].fn = "api_register_user" /\ task[p].at = "found"
  /\ IF task[p].users > 0
     THEN task' = [task EXCEPT ![p].at = "done", ![p].how = "raised",
                               ![p].what = "register:failed"]
     ELSE LET user == [task[p].o EXCEPT !.d = SetItem(@, "id", OwnKey(p))]
              r == SaveArgs(user, User)
          IN task' = [task EXCEPT ![p].at = "save", ![p].o = r.o, ![p].args = r.args]
  /\ UNCHANGED <<conn, free, table>>
  /\ UNCHANGED nonTaskVars

\* the insert of save runs. Whether the users table has a unique index on
\* email is not part of the sources: with one, the insert of an email that
\* is stored already is refused and the driver's error leaves save and the
\* handler; without one the row is inserted
RegisterSave(p) ==
  /\ task[p].fn = "api_register_user" /\ task[p].at = "save"
  /\ \E unique \in BOOLEAN :
       /\ unique => EmailStored(EmailOf(task[p]), table)
       /\ LET x == Run(User.insert, task[p].args, table, User) IN
            IF unique \/ x.err
            THEN /\ task' = [task EXCEPT ![p].at = "done", ![p].how = "raised",
                                         ![p].what = "DatabaseError"]
                 /\ UNCHANGED table
            ELSE /\ task' = [task EXCEPT ![p].at = "done", ![p].rows = x.rows,
                                         ![p].how = AfterExecute(x.rows).how]
                 /\ table' = x.table
  /\ UNCHANGED <<conn, free>>
  /\ UNCHANGED nonTaskVars

NextRegister ==
  \E p \in Procs :
    \/ RegisterCall(p)
    \/ RegisterFind(p)
    \/ RegisterDecide(p)
    \/ RegisterSave(p)

SpecRegister == InitRegister /\ [][NextRegister]_vars

\* a request for one of the blog routes arrives
InitBlogs ==
  /\ PoolIdle /\ SchemaIdle /\ OrmIdle /\ DispatchIdle /\ QueryIdle
  /\ pool = Open
  /\ task = NoTasks
  /\ \E h \in DOMAIN Routes, user \in {"none", "user", "admin"},
        blank \in {"none", "name", "summary", "content"}, exists \in BOOLEAN :
       api = Api(h, Routes[h], user, blank, exists, "received", <<>>, "none", "")

\* auth_factory: request.__user__ is set from the cookie; a /manage/ path
\* without an administrator is answered with HTTPFound('/signin'), every
\* other request goes to the handler
Authenticate ==
  /\ api.at = "received"
  /\ api' = IF RedirectsToSignin(api.path, api.user)
            THEN [api EXCEPT !.at = "done", !.how = "redirected", !.what = "/signin"]
            ELSE [api EXCEPT !.at = "handler"]
  /\ UNCHANGED <<poolVars, schemaVars, ormVars, dispatchVars, queryVars, pool, task>>

\* the handler has run with `ended`
Handled(ended) ==
  /\ api' = [api EXCEPT !.at = "done", !.how = ended.how, !.what = ended.what,
                        !.calls = ended.calls]
  /\ UNCHANGED <<poolVars, schemaVars, ormVars, dispatchVars, queryVars, pool, task>>

CreateBlog ==
  /\ api.at = "handler" /\ api.handler = "api_create_blog"
  /\ Handled(api_create_blog(api.user, api.blank))

DeleteBlog ==
  /\ api.at = "handler" /\ api.handler = "api_delete_blog"
  /\ Handled(api_delete_blog(api.user, api.exists))

ModifyBlog ==
  /\ api.at = "handler" /\ api.handler = "api_modify_blog"
  /\ Handled(api_modify_blog(api.blank, api.exists))

ManageCreateBlog ==
  /\ api.at = "handler" /\ api.handler = "manage_create_blog"
  /\ Handled(manage_create_blog)

NextBlogs ==
  \/ Authenticate
  \/ CreateBlog
  \/ DeleteBlog
  \/ ModifyBlog
  \/ ManageCreateBlog

SpecBlogs == InitBlogs /\ [][NextBlogs]_vars


(* ------------------------------------------------------------------ *)
(* Claims about schema derivation                                      *)
(* ------------------------------------------------------------------ *)
PrimaryKeys == {i \in DOMAIN attrs : attrs[i].primary_key}
NonKeyAttrs == {attrs[i].attr : i \in DOMAIN attrs \ PrimaryKeys}

\* C4: with zero or with two or more primary-key fields the class statement
\* raises and no class (no templates, no field list) is produced; with
\* exactly one it succeeds, __primary_key__ is that field and __fields__
\* holds exactly the other declared fields.
C4_PrimaryKeyCount ==
  derived # "pending" =>
    /\ Cardinality(PrimaryKeys) # 1 => (derived # "ok" /\ cls = NoClass)
    /\ Cardinality(PrimaryKeys) = 1 =>
         /\ derived = "ok"
         /\ \A i \in PrimaryKeys : cls.primary_key = attrs[i].attr
         /\ Range(cls.fields) = NonKeyAttrs
         /\ Len(cls.fields) = Cardinality(NonKeyAttrs)

\* a class was produced from a body whose primary key is not its first field
C4_WitnessOne ==
  /\ derived = "ok"
  /\ Cardinality(PrimaryKeys) = 1
  /\ Len(cls.fields) >= 2
  /\ cls.primary_key # attrs[1].attr

\* a body of two fields, none a primary key, was refused
C4_WitnessNone == derived = "Priamry key not found." /\ Len(attrs) >= 2

\* a body with two primary keys among three fields was refused
C4_WitnessTwo == derived = "Duplicate primary key" /\ Len(attrs) >= 3

\* C5: for every class with exactly one primary key and zero or more other
\* fields the four templates are well formed: non-empty comma-separated
\* column / SET lists with no empty element, as many insert placeholders as
\* insert columns, update and delete ending with one key equality.
C5_TemplatesWellFormed ==
  (derived = "ok" /\ Cardinality(PrimaryKeys) = 1) =>
    /\ ColumnList(SelectColumns(cls.select))
    /\ ColumnList(InsertColumns(cls.insert))
    /\ MarkList(InsertMarks(cls.insert))
    /\ Len(Elements(InsertColumns(cls.insert))) = Len(Elements(InsertMarks(cls.insert)))
    /\ AssignmentList(UpdateSet(cls.update))
    /\ EndsWithKeyEquality(cls.update, cls.primary_key)
    /\ EndsWithKeyEquality(cls.delete, cls.primary_key)


(* ------------------------------------------------------------------ *)
(* Claims about entity instances                                       *)
(* ------------------------------------------------------------------ *)
NonKeyPositions == 1..Len(cls.fields)
NeverSet(f) == f \notin track.explicit
DefaultOf(f) == Mapping(cls.mappings, f).default

\* C3: whatever was done to the instance before (construction, attribute
\* assignment, getValueOrDefault, save), update() binds the absent marker,
\* never a default, for a non-key field that was never explicitly set.
C3_UpdateNeverBindsDefault ==
  last.op = "update" =>
    \A i \in NonKeyPositions :
      NeverSet(cls.fields[i]) => last.args[i] = None

\* the field whose column is named n, when there is one
FieldsOfColumn(n) == {m \in Range(cls.mappings) : ColumnName(m) = n}

\* the i-th bound value is the value of the field whose column is names[i]
BoundToColumns(args, names) ==
  \A i \in DOMAIN names :
    \E m \in FieldsOfColumn(names[i]) : args[i] = getValue(obj, m.attr)

\* C6: save() binds as many values as the insert template has placeholders,
\* the i-th being the value of the field whose column the template names
\* i-th (fields in order, then the key); update() binds one value per SET
\* column in the same order, then the key for the where clause.
C6_ArgumentsMatchTemplates ==
  /\ last.op = "save" =>
       LET names == Identifiers(InsertColumns(cls.insert)) IN
       /\ Len(last.args) = Placeholders(cls.insert)
       /\ Len(names) = Len(last.args)
       /\ BoundToColumns(last.args, names)
  /\ last.op = "update" =>
       LET names == Identifiers(UpdateSet(cls.update)) IN
       /\ Len(last.args) = Placeholders(cls.update)
       /\ Len(names) + 1 = Len(last.args)
       /\ BoundToColumns(last.args, names)
       /\ WhereColumn(cls.update) = KeyColumn(cls)
       /\ last.args[Len(last.args)] = getValue(obj, cls.primary_key)

\* the fields left out at construction and never assigned since
LeftToDefault == track.absent \ track.explicit

\* C7: over any number of getValueOrDefault / save calls the default of a
\* field absent at construction is resolved once: the first call resolves
\* and stores it, later calls return the stored value and do not invoke the
\* generator again.
C7_DefaultResolvedOnce ==
  phase = "live" =>
    \A f \in LeftToDefault :
      /\ obj.res[f] <= 1
      /\ obj.calls[f] <= 1
      /\ (track.gets[f] >= 1 /\ DefaultOf(f) # "none") =>
           /\ obj.res[f] = 1
           /\ obj.calls[f] = (IF DefaultOf(f) = "gen" THEN 1 ELSE 0)
           /\ getValue(obj, f) = obj.first[f]
      /\ (last.op = "getValueOrDefault" /\ last.key = f /\ DefaultOf(f) # "none") =>
           last.ret = obj.first[f]
      /\ (last.op = "save" /\ DefaultOf(f) # "none") =>
           rt.bound[f] = obj.first[f]

\* a field with a generator default, absent at construction, has gone
\* through getValueOrDefault three times (directly and by save)
C7_Witness ==
  /\ phase = "live"
  /\ \E f \in LeftToDefault :
       /\ DefaultOf(f) = "gen"
       /\ f # cls.primary_key
       /\ track.gets[f] >= 3
       /\ last.op = "getValueOrDefault" /\ last.key = f
       /\ \E g \in LeftToDefault : g # f /\ obj.calls[g] = 1

\* C8: save() of an instance whose key is not stored yet, followed by
\* find(key), returns an entity whose value for every declared field is the
\* value save bound for it.
C8_RoundTrip ==
  (rt.stage = "found" /\ rt.fresh) =>
    /\ last.how = "returned"
    /\ last.ret = "entity"
    /\ \A f \in Attrs(cls) :
         f \in DOMAIN last.entity /\ last.entity[f] = rt.bound[f]

\* C9: when execute reported a row count, save / update / remove return
\* normally with the same result (None) whether the count is 1 or not; a
\* count other than 1 only logs a warning.
C9_RowCountNeverRaises ==
  (last.op \in {"save", "update", "remove"} /\ last.rows # -1) =>
    /\ last.how = "returned"
    /\ last.ret = None
    /\ last.warned = (last.rows # 1)

\* update() of an instance that was never saved matched no row and returned
C9_Witness ==
  /\ last.op = "update" /\ last.rows = 0 /\ last.how = "returned"
  /\ last.warned


(* ------------------------------------------------------------------ *)
(* Claims about select / execute                                       *)
(* ------------------------------------------------------------------ *)
\* the driver calls of `s` that are in `keep`, in order
RECURSIVE Only(_, _)
Only(s, keep) ==
  IF s = <<>> THEN <<>>
  ELSE IF Head(s) \in keep THEN <<Head(s)>> \o Only(Tail(s), keep)
       ELSE Only(Tail(s), keep)

Ended(p) == pc[p] = "done"

\* C1: a finished execute(autocommit=False) issued begin, execute, commit in
\* that order when nothing failed; when a guarded statement failed, rollback
\* was issued before the call ended and the caller received the original
\* error; execute(autocommit=True) issues no begin, commit or rollback.
C1_TransactionOrder ==
  \A p \in Procs :
    (Ended(p) /\ call[p].fn = "execute") =>
      /\ (~call[p].autocommit /\ result[p].how = "returned") =>
           Only(ev[p], {"begin", "exec", "commit", "rollback"})
             = <<"begin", "exec", "commit">>
      /\ (~call[p].autocommit /\ caught[p].at \in {"exec", "close", "commit"}) =>
           /\ Only(ev[p], {"rollback"}) = <<"rollback">>
           /\ ev[p][Len(ev[p])] = "rollback"
           /\ result[p] = [how |-> "raised", err |-> caught[p]]
      /\ call[p].autocommit =>
           Only(ev[p], {"begin", "commit", "rollback"}) = <<>>

\* C2: a call that has exited holds no connection, and when no call is in
\* flight every connection is back in the pool.
C2_ConnectionsReturned ==
  /\ \A p \in Procs : pc[p] \in {"idle", "done"} => conn[p] = NoConn
  /\ (\A p \in Procs : pc[p] \in {"idle", "done"}) => free = Conns
  /\ free \cup ({conn[p] : p \in Procs} \ {NoConn}) = Conns

\* a call was cancelled inside its transaction and another failed in
\* rollback, both after checking a connection out, and the pool is full again
C2_Witness ==
  /\ \A p \in Procs : pc[p] \in {"idle", "done"}
  /\ \E p \in Procs :
       /\ Ended(p) /\ ev[p] # <<>>
       /\ result[p].err.what = "cancel"
  /\ \E p \in Procs :
       /\ Ended(p) /\ result[p].err = Err("rollback", "error")
  /\ free = Conns

(* ------------------------------------------------------------------ *)
(* Claims about request dispatch                                       *)
(* ------------------------------------------------------------------ *)
\* the keyword-only parameters the handler function declares without a
\* default
RequiredOf(params) ==
  {params[i].name : i \in {j \in DOMAIN params :
      params[j].kind = "KEYWORD_ONLY" /\ ~params[j].has_default}}

\* the dispatcher got as far as reconciling the keyword mapping: it did not
\* stop at the content type or the shape of the body
Reconciled ==
  /\ stage # "received"
  /\ response.text \notin {"Missing Content-Type.", "JSON body must be object.",
                            "Unsupported Content-Type"}

\* C10: for a handler with required keyword parameters, once the keyword
\* mapping is reconciled: if a required parameter is absent from it, the
\* outcome is a 400 response naming a missing parameter and the handler is
\* not invoked; if all are present, the handler is invoked exactly once.
C10_MissingRequiredRejected ==
  (Reconciled /\ RequiredOf(func) # {}) =>
    IF RequiredOf(func) \subseteq DOMAIN kw
    THEN invoked = 1
    ELSE /\ invoked = 0
         /\ response.name \in RequiredOf(func) \ DOMAIN kw
         /\ stage = "served" => (sent.status = 400 /\ ~sent.error)

\* the names the handler function can take: its keyword-only parameters,
\* the placeholders of its route and request
NamedOf(params) ==
  {params[i].name : i \in {j \in DOMAIN params : params[j].kind = "KEYWORD_ONLY"}}
VariadicKw(params) == \E i \in DOMAIN params : params[i].kind = "VAR_KEYWORD"

\* C11: a handler without **kw and with at least one keyword-only parameter
\* is invoked with keys among its keyword-only names, the placeholders of
\* the route and request: no other body or query key reaches it.
C11_OnlyNamedKeysReachHandler ==
  (invoked = 1 /\ ~VariadicKw(func) /\ NamedOf(func) # {}) =>
    DOMAIN kw \subseteq NamedOf(func) \cup request.match_info \cup {"request"}

\* a handler (*, a) was invoked for a form body with the keys a, x and id:
\* only a reached it
C11_Witness ==
  /\ invoked = 1
  /\ ~VariadicKw(func)
  /\ NamedOf(func) = {"a"}
  /\ request.match_info = {}
  /\ request.method = "POST"
  /\ {"a", "x", "id"} \subseteq request.keys
  /\ DOMAIN kw = {"a"}

\* C12: in the mapping the handler is invoked with, every placeholder of
\* the route carries the path value even when the body or query string has
\* the same key, and for a handler with a request parameter the key request
\* carries the request object whatever body, query string or path supplied.
C12_CollisionPrecedence ==
  invoked = 1 =>
    /\ \A k \in request.match_info \ {"request"} :
         k \in DOMAIN kw /\ kw[k] = "path"
    /\ (\E i \in DOMAIN func : func[i].name = "request") =>
         ("request" \in DOMAIN kw /\ kw["request"] = "request object")
    /\ \A k \in DOMAIN kw :
         kw[k] = "sent" => (k \in request.keys /\ k \notin request.match_info)

\* a handler (id, request, **kw) was invoked for the query string
\* ?id=..&request=.. on a route capturing id and request
C12_Witness ==
  /\ invoked = 1
  /\ VariadicKw(func)
  /\ request.match_info = {"id", "request"}
  /\ {"id", "request", "x"} \subseteq request.keys
  /\ kw["id"] = "path" /\ kw["request"] = "request object" /\ kw["x"] = "sent"

\* a POST whose content type is missing or not one of the three supported
\* ones, or whose JSON body is not an object
BadPost ==
  /\ request.method = "POST"
  /\ \/ request.content_type \notin {"application/json", "multipart/form-data",
                                       "application/x-www-form-urlencoded"}
     \/ request.content_type = "application/json" /\ ~request.json_object

\* C13: for every registered handler, whatever its parameters, such a POST
\* is answered 400 and the handler is not invoked.
C13_BadPostRejected ==
  (stage # "received" /\ BadPost) =>
    /\ invoked = 0
    /\ (stage = "served" => (sent.status = 400 /\ ~sent.error))

\* the handler raised APIError or a subclass of it
DomainErrorRaised == exc.type \in {"APIError", "APIValueError"}

\* C14: when the handler raises a domain error the dispatcher returns the
\* mapping {error, data, message} with exactly the error's three values,
\* the error does not leave the dispatcher, and the normalizer emits the
\* mapping as a JSON object body.
C14_DomainErrorBecomesPayload ==
  DomainErrorRaised =>
    LET payload == [error |-> exc.error, data |-> exc.data, message |-> exc.message] IN
    /\ response.kind = "dict"
    /\ returned.type = "dict" /\ returned.map = payload
    /\ stage \in {"normalized", "served"} =>
         /\ wire.kind = "Response"
         /\ wire.content_type = "application/json;charset=utf-8"
         /\ wire.body = JsonBytes(payload)
    /\ stage = "served" => ~sent.error

\* a handler raised a value error for the field email and the client got
\* the JSON payload
C14_Witness ==
  /\ stage = "served"
  /\ exc = Exc("APIValueError", "value:invalid", "email", "Email is already in use.")
  /\ wire.body.map["data"] = "email"
  /\ ~sent.error

\* the request ended in a client input error: a required parameter is
\* missing, the content type is unsupported, the handler passed findAll a
\* malformed limit, or the handler raised an API value error
ClientInputError ==
  \/ response.text \in {"Missing argument", "Missing Content-Type.",
                         "JSON body must be object.", "Unsupported Content-Type"}
  \/ exc.type \in {"ValueError", "APIValueError"}

\* the body is the error payload {error, data, message}
IsErrorPayload(body) ==
  body.type = "bytes" /\ DOMAIN body.map = {"error", "data", "message"}

\* C15: every client input error ends as a response with a status in
\* 400..499 that carries the normalized error payload, and none leaves the
\* dispatcher / normalizer chain as an exception.
C15_ClientErrorsNormalized ==
  (stage = "served" /\ ClientInputError) =>
    /\ wire.kind # "raised"
    /\ ~sent.error
    /\ sent.status >= 400 /\ sent.status <= 499
    /\ IsErrorPayload(wire.body)

(* ------------------------------------------------------------------ *)
(* Claims about the response normalizer                                *)
(* ------------------------------------------------------------------ *)
\* response(request) has run on a value the handler returned
NormalizedValue == stage \in {"normalized", "served"} /\ response.kind = "returned"

ValidStatus(v) == v.type = "int" /\ v.n >= 100 /\ v.n < 600

\* C16: the normalizer follows the mapping of the specification: a complete
\* response is handed through unchanged; bytes give a binary response; a
\* string starting with 'redirect:' gives a redirect to the rest of it and
\* no HTML, any other string an HTML response with the string as body; a
\* mapping without a template entry a JSON object response; an integer n in
\* 100..599 an empty response with status n; a pair (n, m) with such an n
\* status n and body m, any other pair the stringified pair as plain text.
C16_NormalizerMapping ==
  NormalizedValue =>
    LET r == returned IN
    /\ r.type = "StreamResponse" =>
         wire.kind = "StreamResponse" /\ wire.body = r /\ wire.status = r.n
    /\ r.type = "bytes" =>
         /\ wire.kind = "Response" /\ wire.body = r
         /\ wire.content_type = "application/octet-stream"
    /\ (r.type = "str" /\ StartsWith(r.s, Redirect)) =>
         wire.kind = "HTTPFound" /\ Redirect \o wire.location = r.s
    /\ (r.type = "str" /\ ~StartsWith(r.s, Redirect)) =>
         /\ wire.kind = "Response" /\ wire.body = PyBytes(r.s)
         /\ wire.content_type = "text/html;charset=utf-8"
    /\ (r.type = "dict" /\ "__template__" \notin DOMAIN r.map) =>
         /\ wire.kind = "Response" /\ wire.body.map = r.map
         /\ wire.content_type = "application/json;charset=utf-8"
    /\ ValidStatus(r) =>
         wire.kind = "Response" /\ wire.status = r.n /\ wire.body = PyNone
    /\ (r.type = "tuple" /\ Len(r.items) = 2) =>
         IF ValidStatus(r.items[1])
         THEN /\ wire.kind = "Response" /\ wire.status = r.items[1].n
              /\ r.items[2].type = "str" => wire.body = r.items[2]
         ELSE /\ wire.kind = "Response" /\ wire.body = PyBytes(StrOfPair(r))
              /\ wire.content_type = "text/plain;charset=utf-8"

\* the value matches none of the normalizer's cases
Unmatched(r) ==
  \/ r.type \in {"NoneType", "list", "float", "bool"}
  \/ r.type = "int" /\ ~ValidStatus(r)
  \/ r.type = "tuple" /\ Len(r.items) # 2

\* C17: for a return value that matches none of the cases the normalizer
\* produces no response, and the request ends as a fatal dispatch error.
C17_UnmatchedValueIsFatal ==
  (NormalizedValue /\ Unmatched(returned)) =>
    /\ wire.kind \notin {"Response", "HTTPFound", "StreamResponse"}
    /\ stage = "served" => sent.error

\* a handler returned the list [404, 'm'] and the request ended as a
\* server error
C17_Witness ==
  /\ stage = "served"
  /\ returned = PyList(<<PyInt(404), PyStr(<<"m">>)>>)
  /\ wire.kind = "None"
  /\ sent.error /\ sent.status = 500

(* ------------------------------------------------------------------ *)
(* Claims about the queries                                            *)
(* ------------------------------------------------------------------ *)
\* a limit of a shape findAll does not take: a tuple of a length other
\* than 2, a list, a string, a float
OtherShape(l) ==
  \/ l.type \in {"list", "str", "float"}
  \/ l.type = "tuple" /\ Len(l.items) # 2

\* C18: findAll takes limit as an integer (a row cap) or as an (offset,
\* count) pair and hands the statement to select; for a limit of any other
\* shape (a tuple of a length other than 2, a list, a string, a float) it
\* raises ValueError, and it has not called select by then: no connection
\* acquired, no statement executed.
C18_LimitShapes ==
  query.fn = "findAll" =>
    /\ OtherShape(query.limit) =>
         answer.how = "raised" /\ answer.what = "ValueError" /\ answer.selects = 0
    /\ \/ query.limit.type = "int"
       \/ query.limit.type = "tuple" /\ Len(query.limit.items) = 2
       => answer.selects = 1 /\ answer.what # "ValueError"

\* findAll called with a tuple of three values over a table that has rows
C18_Witness ==
  /\ query.fn = "findAll"
  /\ query.limit.type = "tuple" /\ Len(query.limit.items) = 3
  /\ answer.how = "raised"
  /\ DOMAIN table # {}

\* the call made with limit=(offset, count), and what the same call
\* without limit returns
PairLimit == query.fn = "findAll" /\ IsPair(query.limit)
Offset == query.limit.items[1].n
Count == query.limit.items[2].n
Unlimited == findAll(cls, query.where, query.args, query.orderBy, PyNone, table)
Remaining == IF Len(Unlimited.rows) > Offset THEN Len(Unlimited.rows) - Offset ELSE 0

\* C19: for every filter, argument list and order, where findAll without
\* limit returns a list, findAll with limit=(offset, count) returns at most
\* count entities, and they are the entities at positions offset ..
\* offset+count-1 (counted from 0) of that list; the arguments handed to
\* select are the filter arguments, one per filter placeholder and in
\* their order, followed by offset and count for the two placeholders of
\* the limit clause.
C19_LimitIsASlice ==
  (PairLimit /\ Unlimited.how = "returned") =>
    /\ answer.how = "returned"
    /\ Len(answer.rows) <= Count
    /\ Len(answer.rows) = (IF Count < Remaining THEN Count ELSE Remaining)
    /\ \A i \in DOMAIN answer.rows : answer.rows[i] = Unlimited.rows[Offset + i]
    /\ Placeholders(Clauses(answer.sql).where) = Len(query.args)
    /\ SubSeq(answer.args, 1, Len(query.args)) = query.args
    /\ Clauses(answer.sql).limit = <<Kw("?"), Kw(","), Kw("?")>>
    /\ SubSeq(answer.args, Len(query.args) + 1, Len(answer.args))
         = <<Literal(Offset), Literal(Count)>>

\* a filtered, ordered call that skips rows at the front and leaves rows
\* behind at the end
C19_Witness ==
  /\ PairLimit /\ answer.how = "returned"
  /\ query.args # <<>> /\ query.orderBy # <<>>
  /\ Offset > 0
  /\ Len(answer.rows) >= 1
  /\ Len(Unlimited.rows) > Offset + Len(answer.rows)

\* the rows the filter of the call selects
Selected == Filtered(table, query.where, query.args)

\* C20 as stated: find(pk) returns exactly one entity when a row with
\* that key exists and None when none exists; findNumber returns the
\* first row's aggregate value, or None when the table is empty.
C20_AbsenceIsAValue ==
  /\ query.fn = "find" =>
       /\ answer.how = "returned"
       /\ query.pk \in DOMAIN table =>
            answer.value = "entity" /\ Len(answer.rows) = 1
       /\ query.pk \notin DOMAIN table => answer.value = None
  /\ query.fn = "findNumber" =>
       /\ answer.how = "returned"
       /\ DOMAIN table = {} => answer.value = None

\* C20 as the code has it: find(pk) never raises because the row is
\* absent: where it returns, it returns exactly one entity, the row stored
\* under pk, when there is one and None when there is none, and where it
\* raises it raises for every key, stored or not. findNumber returns the
\* value of the first row of the aggregate select: count over no rows is
\* 0, not None; None is returned only for an aggregate that is NULL (max
\* over no rows).
C20_AbsenceNeverRaises ==
  /\ query.fn = "find" =>
       /\ answer.how = "returned" =>
            /\ query.pk \in DOMAIN table =>
                 /\ answer.value = "entity" /\ Len(answer.rows) = 1
                 /\ answer.rows[1][cls.primary_key] = query.pk
            /\ query.pk \notin DOMAIN table =>
                 answer.value = None /\ answer.rows = <<>>
       /\ answer.how = "raised" =>
            \A k \in Keys : find(cls, k, table).how = "raised"
  /\ query.fn = "findNumber" =>
       /\ answer.how = "returned"
       /\ query.selectField[1] = Kw("count") =>
            answer.value = Literal(Cardinality(Selected))
       /\ query.selectField[1] = Kw("max") =>
            (answer.value = None <=> Selected = {})

\* count over an empty table
C20_Witness ==
  /\ query.fn = "findNumber" /\ query.selectField[1] = Kw("count")
  /\ DOMAIN table = {} /\ answer.value = Literal(0)

\* find of a key no row has, on a table that has rows
C20_WitnessFind ==
  /\ query.fn = "find" /\ answer.how = "returned" /\ answer.value = None
  /\ DOMAIN table # {}

(* ------------------------------------------------------------------ *)
(* Claims about column names                                           *)
(* ------------------------------------------------------------------ *)
\* the identifier the select, insert and update template use for the i-th
\* non-key field
InSelect(i) == Identifiers(SelectColumns(cls.select))[i + 1]
InInsert(i) == Identifiers(InsertColumns(cls.insert))[i]
InUpdate(i) == Identifiers(UpdateSet(cls.update))[i]

\* C23: for every entity type and every non-key field, a field with an
\* explicit column name included, the select, insert and update templates
\* name the field by the same identifier, the column the field is stored in.
C23_SameColumnEverywhere ==
  derived = "ok" =>
    \A i \in DOMAIN cls.fields :
      /\ InSelect(i) = InInsert(i)
      /\ InInsert(i) = InUpdate(i)
      /\ InUpdate(i) = ColumnName(Mapping(cls.mappings, cls.fields[i]))

\* C24: findAll leaves the list the caller passed as args as it was: once
\* the call has returned or raised the list holds the elements it held
\* when it was passed, and the statement findAll hands to select has as
\* many bound values as placeholders, at the first call and at every call
\* repeated with the same list and limit.
C24_ArgsLeftAlone ==
  (query.fn = "findAll" /\ caller.given) =>
    /\ caller.args = query.args
    /\ answer.selects = 1 => Len(answer.args) = Placeholders(answer.sql)

(* ------------------------------------------------------------------ *)
(* Claims about the pool's lifetime                                    *)
(* ------------------------------------------------------------------ *)
\* C22: the pool is created once at startup and closed once at shutdown:
\* when the program has ended the pool is closed; once the pool is closed
\* no call of select or execute holds or obtains a connection; and the
\* calls that held a connection have finished and returned it by the time
\* the program ends.
C22_ClosedAtShutdown ==
  /\ ~pool.running => pool.state = "closed"
  /\ pool.state = "closed" => \A p \in Procs : conn[p] = NoConn
  /\ ~pool.running => InFlight = {}

(* ------------------------------------------------------------------ *)
(* Claims about concurrent tasks                                       *)
(* ------------------------------------------------------------------ *)
\* every task has left save()
AllSaved == \A p \in Procs : task[p].fn = "save" /\ task[p].at = "done"

\* C21: however two save() calls on instances with different primary keys
\* interleave, both complete, both rows are persisted, and each persisted
\* row holds exactly the values its own save bound: no row is lost and no
\* value of one instance appears in the other's row.
C21_BothRowsPersisted ==
  AllSaved =>
    \A p \in Procs :
      /\ task[p].how = "returned"
      /\ OwnKey(p) \in DOMAIN table
      /\ table[OwnKey(p)] = RowOf(cls, task[p].o)

\* the same for the types whose insert statement the database accepts: a
\* key and at least one other field, stored under the attributes' names
InsertAccepted ==
  /\ Len(cls.fields) >= 1
  /\ \A i \in DOMAIN cls.mappings : cls.mappings[i].name = NoName
SavesOfAcceptedTypes == InsertAccepted => C21_BothRowsPersisted

\* task p has ended and its user row is stored
Registered(p) ==
  /\ task[p].fn = "api_register_user" /\ task[p].at = "done"
  /\ task[p].how = "returned" /\ OwnKey(p) \in DOMAIN table

\* two requests with the same email, both ended
SameEmailEnded(p, q) ==
  /\ p # q
  /\ task[p].fn = "api_register_user" /\ task[q].fn = "api_register_user"
  /\ task[p].at = "done" /\ task[q].at = "done"
  /\ EmailOf(task[p]) = EmailOf(task[q])

\* C26: however two api_register_user requests with the same valid email
\* interleave, at most one of them saves a user row for that email; the
\* other ends with the 'register:failed' error and saves nothing.
C26_OneRegistrationPerEmail ==
  \A p, q \in Procs :
    SameEmailEnded(p, q) =>
      /\ ~(Registered(p) /\ Registered(q))
      /\ Registered(p) =>
           task[q].what = "register:failed" /\ OwnKey(q) \notin DOMAIN table

(* ------------------------------------------------------------------ *)
(* Claims about blog management                                        *)
(* ------------------------------------------------------------------ *)
\* the calls that change the stored blogs
Writes == {"save", "update", "remove"}

\* C25: only an administrator changes blog posts: in api_create_blog,
\* api_modify_blog and api_delete_blog no save(), update() or remove() is
\* executed unless the request's user is present and has the admin flag; a
\* request without such a user ends without any persistence operation.
C25_OnlyAdminWrites ==
  (api.handler \in {"api_create_blog", "api_modify_blog", "api_delete_blog"}
     /\ NotAdmin(api.user)) =>
    \A i \in DOMAIN api.calls : api.calls[i] \notin Writes

\* the same for the two handlers that call check_admin
CheckedHandlersOnly ==
  (api.handler \in {"api_create_blog", "api_delete_blog"} /\ NotAdmin(api.user)) =>
    api.calls = <<>>

====
